---- MODULE Spec2Model ----
(***************************************************************************)
(* Realtime messaging and presence subsystem of zchat:                     *)
(*   backend/app/api/websocket.py          ConnectionManager and the       *)
(*                                         websocket_endpoint coroutine    *)
(*   backend/app/services/message_service.py  MessageService.create_message*)
(*                                                                         *)
(* Every connection is one asyncio task running websocket_endpoint.  The   *)
(* tasks share the ConnectionManager (active_connections) and the store.   *)
(* A task runs without interruption between two awaits, so one action of   *)
(* the model is the code between two suspension points of one task.  The   *)
(* suspension points are: websocket.accept(), websocket.receive_json(),    *)
(* websocket.send_json() and websocket.close().                            *)
(***************************************************************************)
EXTENDS Integers, Sequences, FiniteSets, TLC

(* ---------------------------------------------------------------- bounds *)
MaxMsgs == 2       \* message rows ever created
MaxConvs == 3      \* conversation rows ever created, the one of the start included
MaxTime == 3       \* readings of the clock by the calls that store what they read

(* ----------------------------------------------------- program constants *)
\* settings.MAX_MESSAGES_PER_CONVERSATION, 1000 in config.py, scaled to the rows
\* the model creates so that _prune_old_messages has rows to delete.
MAX_MESSAGES_PER_CONVERSATION == 1
AUTH_FAILED == 1008
INTERNAL_ERROR == 1011
\* Field(..., min_length=1, max_length=5000) of MessageCreate.content.
MIN_LENGTH == 1
MAX_LENGTH == 5000

(* ------------------------------------------------------------ store data *)
Conns == {1, 2, 3}
Users == {1, 2, 3, 4}
None == 0

\* users.is_active: user 4 was deactivated.
is_active == [u \in Users |-> u # 4]

\* users.username, the "sub" of a token.
username == [u \in Users |-> <<"ann", "bob", "cat", "dan">>[u]]

\* A token either does not decode ("bad") or carries a username; "eve" is the
\* name of nobody.
TokenList == <<"ann", "bob", "cat", "dan", "eve", "bad">>

\* The clients that show up: two connections with any two tokens (the third
\* handle is never used), or three connections of which two are ann's and one
\* is bob's.
Duo ==
    {<<TokenList[p[1]], TokenList[p[2]], "absent">> :
        p \in {q \in (1..Len(TokenList)) \X (1..Len(TokenList)) : q[1] <= q[2]}}
Trio == {<<"ann", "ann", "bob">>}

\* conversations and conversation_participants: one conversation, in the
\* order its participants relationship loads.
ConvIds == {1}
participants == [c \in ConvIds |-> <<1, 2>>]

\* conversation ids a client may name: the existing ones and one that is unknown.
EventConvs == ConvIds \cup {7}

\* Message bodies a client may send: empty, whitespace only, two ordinary
\* texts, one of them also with blanks around it, and one of 5001 characters
\* (written "long").
Contents == {"", " ", "hi", " hi ", "yo", "long"}
len == [s \in Contents |->
           CASE s = "" -> 0 [] s = " " -> 1 [] s = " hi " -> 4 [] s = "long" -> 5001
             [] OTHER -> 2]
strip == [s \in Contents |-> CASE s = " " -> "" [] s = " hi " -> "hi" [] OTHER -> s]

\* A `message` event without a "content" key.
NoContent == "(no content key)"

\* The snapshot holds two classes named MessageCreate.  `from app.schemas
\* import MessageCreate` binds the one of schemas/__init__.py ("package"):
\* content and conversation_id, no validator, no file_path.  create_message and
\* the websocket handler are written against the one of schemas/message.py
\* ("module"): file_path, file_type and the content_not_empty validator.
Schemas == {"package", "module"}

\* message_encryption.encrypt / decrypt: Fernet, except that an empty string
\* is returned as it is, and that what does not decrypt is returned as it is.
Ciphertexts == {"gAAAAA:" \o s : s \in Contents \ {""}}

\* The bodies scripts/cleanup_files.py writes: line 60, and lines 70-76 by the
\* file_type of the message.
FILE_EXPIRED == "[File expired]"
placeholder_text(file_type) ==
    IF file_type = "document"
    THEN "document has been deleted due to data retention policy"
    ELSE "picture has been deleted due to data retention policy"

\* Everything that is ever encrypted.
Plaintexts == Contents \cup {placeholder_text("document"), placeholder_text("image")}

encrypt(message) == IF message = "" THEN message ELSE "gAAAAA:" \o message
decrypt_nothing(encrypted_message) == encrypted_message
decrypt(encrypted_message) ==
    IF encrypted_message = "" THEN encrypted_message
    ELSE IF \E s \in Plaintexts : encrypt(s) = encrypted_message
         THEN CHOOSE s \in Plaintexts : encrypt(s) = encrypted_message
         ELSE encrypted_message

VARIABLES
    pc,                  \* where each task is suspended
    token,               \* the token query parameter of each connection
    current_user,        \* websocket_endpoint's current_user / user_id (None: unset)
    sock,                \* the websocket: "new", "open", "gone" (peer left), "closed"
    close_code,          \* code of the server's websocket.close(), None if none
    active_connections,  \* ConnectionManager.active_connections: user id -> handle
    is_online,           \* users.is_online
    last_seen,           \* users.last_seen
    now,                 \* datetime.utcnow(), a logical clock
    messages,            \* the messages table, in insertion order
    next_id,             \* next messages.id
    bq,                  \* per task: recipients a running broadcast still has to try
    inflight,            \* per task: the send_json it is suspended in
    payload,             \* per task: the payload being sent
    cont,                \* per task: where it continues after the broadcast
    inbox,               \* per connection: ids of the `message` pushes it got, in order
    ever_committed,      \* the message rows whose insert committed, as inserted
    cleanups,            \* per connection: runs of the finally block
    offline_written,     \* per connection: its cleanup committed is_online = False
    offline_announced,   \* per connection: its cleanup called the user_offline broadcast
    message_schema,      \* the MessageCreate class the services run with
    user_deleted_messages, \* the user_deleted_messages table: rows per (user, message)
    response,            \* what the last call of a service method returned or raised
    conversations,       \* the conversations table, in insertion order; updated_at is
                         \* set by the column default at the insert and by onupdate
                         \* at an UPDATE of the row
    conversation_participants, \* the association table: rows (user, conversation, cursor)
    pruning              \* per server process: where its create_message call is, with
                         \* the message_count and messages_to_delete it has read

vars == <<pc, token, current_user, sock, close_code, active_connections, is_online,
          last_seen, now, messages, next_id, bq, inflight, payload, cont, inbox,
          ever_committed, cleanups, offline_written, offline_announced,
          message_schema, user_deleted_messages, response, conversations,
          conversation_participants, pruning>>

\* What the websocket tasks never touch.
rest == <<message_schema, user_deleted_messages, response, conversations,
          conversation_participants, pruning>>

NoSend == [user |-> None, handle |-> None]
NoPayload == [type |-> "none", conv |-> None, mid |-> None, from |-> None]
NoResponse == [call |-> "none", status |-> 0, rows |-> <<>>]

\* Server processes that share the database, and a process that is in no call.
Workers == {1, 2}
Idle == [at |-> "idle", message_count |-> 0, messages_to_delete |-> {}]

\* The users that call the service: the two participants and an outsider.
Callers == {1, 2, 3}

\* Message ids a caller may name: those ever given out and the next one.
MessageIds == 1..(MaxMsgs + 1)

\* user_deleted_messages: how many rows the table holds for (user_id, message_id).
Overlays(table, user_id, message_id) == table[<<user_id, message_id>>]
NoOverlays == [k \in Callers \X MessageIds |-> 0]

Start ==
    /\ pc = [c \in Conns |-> "connecting"]
    /\ current_user = [c \in Conns |-> None]
    /\ sock = [c \in Conns |-> "new"]
    /\ close_code = [c \in Conns |-> None]
    /\ active_connections = [u \in Users |-> None]
    /\ is_online = [u \in Users |-> FALSE]
    /\ last_seen = [u \in Users |-> 0]
    /\ now = 0
    /\ messages = <<>>
    /\ next_id = 1
    /\ bq = [c \in Conns |-> <<>>]
    /\ inflight = [c \in Conns |-> NoSend]
    /\ payload = [c \in Conns |-> NoPayload]
    /\ cont = [c \in Conns |-> "none"]
    /\ inbox = [c \in Conns |-> <<>>]
    /\ ever_committed = {}
    /\ cleanups = [c \in Conns |-> 0]
    /\ offline_written = [c \in Conns |-> FALSE]
    /\ offline_announced = [c \in Conns |-> FALSE]
    /\ message_schema \in Schemas
    /\ user_deleted_messages = NoOverlays
    /\ response = NoResponse
    /\ conversations = [c \in ConvIds |-> [id |-> c, is_group |-> FALSE, updated_at |-> 0]]
    /\ conversation_participants =
           {[user_id |-> participants[c][i], conversation_id |-> c, last_read_at |-> None] :
               c \in ConvIds, i \in 1..2}
    /\ pruning = [w \in Workers |-> Idle]

Init == token \in Duo /\ Start

InitTrio == token \in Trio /\ Start

(* ------------------------------------------------------ ConnectionManager *)

\* connect as it would be if an existing entry were kept (first connection wins).
connect_keep_first(reg, user_id, websocket) ==
    IF reg[user_id] # None THEN reg ELSE [reg EXCEPT ![user_id] = websocket]

\* ConnectionManager.connect, after websocket.accept(): the entry of user_id
\* becomes this websocket, whatever it was.
connect(reg, user_id, websocket) == [reg EXCEPT ![user_id] = websocket]

\* disconnect as it would be if it removed nothing.
disconnect_nothing(reg, user_id) == reg

\* ConnectionManager.disconnect: delete the entry of user_id if there is one.
disconnect(reg, user_id) ==
    IF reg[user_id] # None THEN [reg EXCEPT ![user_id] = None] ELSE reg

\* list(manager.active_connections.keys()), taken in ascending id order.
RECURSIVE SortedSeq(_)
SortedSeq(S) ==
    IF S = {} THEN <<>>
    ELSE LET m == CHOOSE x \in S : \A y \in S : x <= y
         IN <<m>> \o SortedSeq(S \ {m})

keys(reg) == SortedSeq({u \in Users : reg[u] # None})

\* The loop filter as it would be if exclude_user_id were ignored.
RecipientsAll(participant_ids, exclude_user_id) == participant_ids

\* broadcast_to_conversation's loop filter: `if user_id != exclude_user_id`.
Recipients(participant_ids, exclude_user_id) ==
    SelectSeq(participant_ids, LAMBDA u : u # exclude_user_id)

\* send_personal_message's guard `if user_id in self.active_connections`:
\* recipients without an entry are passed over without suspending.
RECURSIVE SkipUnregistered(_, _)
SkipUnregistered(q, reg) ==
    IF q = <<>> THEN <<>>
    ELSE IF reg[Head(q)] # None THEN q
    ELSE SkipUnregistered(Tail(q), reg)

\* The broadcast as it would be if the exception of one send_json ended the loop.
AbortBroadcast(q) == <<>>

\* What is left of a broadcast after send_json raised for one recipient: the
\* exception is caught inside send_personal_message, the loop goes on.
AfterFailedSend(q) == q

\* websocket.send_json on a handle: the frame reaches the peer iff the socket is
\* open when the call is made; the call raises, when the task resumes from it,
\* iff the socket is not open then.
Delivers(sk, h) == sk[h] = "open"

\* A socket that hands over the newest frame first.
ArriveFirst(box, mid) == <<mid>> \o box

\* The frames of one socket arrive in the order they were sent.
Arrive(box, mid) == Append(box, mid)

\* The rest of broadcast_to_conversation for task c, from registry `reg`, with
\* sockets `sk` and recipients q still to try, up to the task's next suspension:
\* either inside the send_json of the next registered recipient, or, the loop
\* being over, at k.
Pump(c, reg, sk, q, pay, k) ==
    LET q1 == SkipUnregistered(q, reg) IN
    IF q1 = <<>>
    THEN /\ active_connections' = reg
         /\ bq' = [bq EXCEPT ![c] = <<>>]
         /\ inflight' = [inflight EXCEPT ![c] = NoSend]
         /\ payload' = [payload EXCEPT ![c] = NoPayload]
         /\ cont' = [cont EXCEPT ![c] = "none"]
         /\ pc' = [pc EXCEPT ![c] = k]
         /\ inbox' = inbox
    ELSE LET u == Head(q1)
             h == reg[u]
             ok == Delivers(sk, h)
         IN /\ active_connections' = reg
            /\ bq' = [bq EXCEPT ![c] = Tail(q1)]
            /\ inflight' = [inflight EXCEPT ![c] = [user |-> u, handle |-> h]]
            /\ payload' = [payload EXCEPT ![c] = pay]
            /\ cont' = [cont EXCEPT ![c] = k]
            /\ pc' = [pc EXCEPT ![c] = "sending"]
            /\ inbox' = IF ok /\ pay.type = "message"
                        THEN [inbox EXCEPT ![h] = Arrive(@, pay.mid)]
                        ELSE inbox

\* The task calls websocket.send_json on its own socket with an `error` event
\* (lines 206-209) and is suspended in it.
SendError(c) ==
    /\ active_connections' = active_connections
    /\ bq' = [bq EXCEPT ![c] = <<>>]
    /\ inflight' = [inflight EXCEPT ![c] = [user |-> current_user[c], handle |-> c]]
    /\ payload' = [payload EXCEPT ![c] =
                      [type |-> "error", conv |-> None, mid |-> None, from |-> None]]
    /\ cont' = [cont EXCEPT ![c] = "active"]
    /\ pc' = [pc EXCEPT ![c] = "sending"]
    /\ inbox' = inbox

\* send_personal_message resumes from send_json: on an exception it logs and
\* calls self.disconnect(user_id); then the broadcast loop goes on.
SendDone(c) ==
    /\ pc[c] = "sending"
    /\ payload[c].type # "error"
    /\ LET s == inflight[c]
           ok == Delivers(sock, s.handle)
           reg == IF ok THEN active_connections
                  ELSE disconnect(active_connections, s.user)
           q == IF ok THEN bq[c] ELSE AfterFailedSend(bq[c])
       IN Pump(c, reg, sock, q, payload[c], cont[c])
    /\ UNCHANGED <<token, rest, current_user, sock, close_code, is_online, last_seen, now,
                   messages, next_id, ever_committed, cleanups,
                   offline_written, offline_announced>>

(* ----------------------------------------------------------- the store *)

\* The lookup as it would be without the is_active filter.
ResolveAnyUser(t) ==
    IF t = "bad" THEN None
    ELSE IF \E u \in Users : username[u] = t
         THEN CHOOSE u \in Users : username[u] = t
         ELSE None

\* The user the token resolves to in websocket_endpoint: decode_token, then the
\* query on username and is_active; None when any of the three fails.
Resolve(t) ==
    IF t = "bad" THEN None
    ELSE IF \E u \in Users : username[u] = t /\ is_active[u]
         THEN CHOOSE u \in Users : username[u] = t /\ is_active[u]
         ELSE None

\* Rows of one conversation, oldest first.
RowsOf(rows, conv) == SelectSeq(rows, LAMBDA m : m.conversation_id = conv)

\* How many rows _prune_old_messages deletes: the count above the ceiling.
Surplus(rows, conv) ==
    IF Len(RowsOf(rows, conv)) > MAX_MESSAGES_PER_CONVERSATION
    THEN Len(RowsOf(rows, conv)) - MAX_MESSAGES_PER_CONVERSATION
    ELSE 0

\* The service as it would be without pruning.
prune_nothing(rows, conv) == rows

\* MessageService._prune_old_messages: delete the oldest rows above the ceiling.
prune_old_messages(rows, conv) ==
    LET doomed == {RowsOf(rows, conv)[i].id : i \in 1..Surplus(rows, conv)}
    IN SelectSeq(rows, LAMBDA m : m.id \notin doomed)

\* user_deleted_messages.message_id is ForeignKey("messages.id") with no ON
\* DELETE rule and the engine enforces foreign keys: the DELETE of
\* _prune_old_messages raises IntegrityError when a row it would delete is
\* referenced by a row of user_deleted_messages.
Referenced(rows, table, conv) ==
    \E i \in 1..Surplus(rows, conv), user_id \in Callers :
        Overlays(table, user_id, RowsOf(rows, conv)[i].id) > 0

\* The insert of MessageService.create_message.
NewRow(conv, sender, c, content) ==
    [id |-> next_id, content |-> encrypt(content), conversation_id |-> conv,
     sender_id |-> sender, is_deleted |-> FALSE, is_edited |-> FALSE,
     is_read |-> FALSE, via |-> c]

\* The update of the mark_read event: every unread row of the conversation that
\* somebody else sent becomes read.
MarkRead(rows, conv, reader) ==
    [i \in 1..Len(rows) |->
        IF rows[i].conversation_id = conv /\ rows[i].sender_id # reader
        THEN [rows[i] EXCEPT !.is_read = TRUE]
        ELSE rows[i]]

\* MessageCreate(content=..., conversation_id=...): the Field bounds, and with
\* the class of schemas/message.py its content_not_empty validator (content is
\* the first field, so `values` never holds file_path when it runs).
Validates(schema, content) ==
    /\ content \in Contents
    /\ MIN_LENGTH <= len[content] /\ len[content] <= MAX_LENGTH
    /\ schema = "module" => strip[content] # ""

\* message_service.py:50-51 read message_data.file_path and .file_type, which
\* only the class of schemas/message.py has; with the other the read raises
\* AttributeError before the row is added.
HasAttachmentFields(schema) == schema = "module"

\* The checks as they would be without the participant test.
CreateCheckAnyone(conv, sender) ==
    IF conv \notin ConvIds THEN "not_found" ELSE "ok"

\* create_message's checks: 404 for an unknown conversation, 403 for a sender
\* who is not a participant; "ok" otherwise.
CreateCheck(conv, sender) ==
    IF conv \notin ConvIds THEN "not_found"
    ELSE IF \A i \in 1..Len(participants[conv]) : participants[conv][i] # sender
         THEN "forbidden"
         ELSE "ok"

(* --------------------------------------------------- websocket_endpoint *)


\* The task goes to k without sending anything.
Goto(c, k) == Pump(c, active_connections, sock, <<>>, NoPayload, k)

\* Lines 110-126: decode the token and load the active user.  On failure the
\* socket is closed with 1008 and the function returns; the finally block finds
\* user_id and current_user unset and only closes the storage session.
Authenticate(c) ==
    /\ pc[c] = "connecting"
    /\ token[c] # "absent"
    /\ LET u == Resolve(token[c]) IN
       IF u = None
       THEN /\ sock' = [sock EXCEPT ![c] = "closed"]
            /\ close_code' = [close_code EXCEPT ![c] = AUTH_FAILED]
            /\ current_user' = current_user
            /\ Goto(c, "closed")
       ELSE /\ current_user' = [current_user EXCEPT ![c] = u]
            /\ Goto(c, "accepting")
            /\ UNCHANGED <<sock, close_code>>
    /\ UNCHANGED <<token, rest, is_online, last_seen, now, messages, next_id,
                   ever_committed, cleanups, offline_written, offline_announced>>

\* Lines 128-151, from the return of websocket.accept(): register, commit
\* is_online = True, start the user_online broadcast to the registry's keys.
RegisterOnline(c) ==
    /\ pc[c] = "accepting"
    /\ LET u == current_user[c]
           sk == [sock EXCEPT ![c] = "open"]
           reg == connect(active_connections, u, c)
       IN /\ sock' = sk
          /\ is_online' = [is_online EXCEPT ![u] = TRUE]
          /\ Pump(c, reg, sk, keys(reg),
                  [type |-> "user_online", conv |-> None, mid |-> None, from |-> u],
                  "active")
    /\ UNCHANGED <<token, rest, current_user, close_code, last_seen, now, messages, next_id,
                   ever_committed, cleanups, offline_written,
                   offline_announced>>

\* Lines 136-140: the commit of is_online = True fails: rollback, close with
\* 1011, return.  The entry made by connect stays until the finally block.
RegisterCommitFails(c) ==
    /\ pc[c] = "accepting"
    /\ sock' = [sock EXCEPT ![c] = "closed"]
    /\ close_code' = [close_code EXCEPT ![c] = INTERNAL_ERROR]
    /\ Pump(c, connect(active_connections, current_user[c], c), sock', <<>>,
            NoPayload, "finally")
    /\ UNCHANGED <<token, rest, current_user, is_online, last_seen, now, messages, next_id,
                   ever_committed, cleanups, offline_written, offline_announced>>

\* The peer goes away; the task learns of it at its next receive_json.
ClientDrop(c) ==
    /\ sock[c] = "open"
    /\ sock' = [sock EXCEPT ![c] = "gone"]
    /\ UNCHANGED <<pc, token, rest, current_user, close_code, active_connections, is_online,
                   last_seen, now, messages, next_id, bq, inflight, payload, cont, inbox,
                   ever_committed, cleanups, offline_written,
                   offline_announced>>

\* Lines 299-342, the finally block of a task whose authentication succeeded:
\* manager.disconnect(user_id); on a fresh session set is_online = False and
\* last_seen, commit, and broadcast user_offline to the registry's keys; when the
\* commit raises, roll back (the broadcast is inside the same try and is skipped);
\* close the sessions.
Cleanup(c) ==
    LET u == current_user[c]
        reg == disconnect(active_connections, u)
    IN /\ cleanups' = [cleanups EXCEPT ![c] = @ + 1]
       /\ \/ /\ is_online' = [is_online EXCEPT ![u] = FALSE]
             /\ now' = now + 1
             /\ last_seen' = [last_seen EXCEPT ![u] = now + 1]
             /\ offline_written' = [offline_written EXCEPT ![c] = TRUE]
             /\ offline_announced' = [offline_announced EXCEPT ![c] = TRUE]
             /\ Pump(c, reg, sock, keys(reg),
                     [type |-> "user_offline", conv |-> None, mid |-> None, from |-> u],
                     "closed")
          \/ /\ Pump(c, reg, sock, <<>>, NoPayload, "closed")
             /\ UNCHANGED <<is_online, now, last_seen, offline_written,
                            offline_announced>>

\* Line 288: receive_json raises WebSocketDisconnect; the finally block follows
\* without a suspension.
ClientGone(c) ==
    /\ pc[c] = "active"
    /\ sock[c] = "gone"
    /\ Cleanup(c)
    /\ UNCHANGED <<token, rest, current_user, sock, close_code, messages, next_id,
                   ever_committed>>

\* The finally block after the awaited websocket.close() of lines 139 and 295.
Finally(c) ==
    /\ pc[c] = "finally"
    /\ Cleanup(c)
    /\ UNCHANGED <<token, rest, current_user, sock, close_code, messages, next_id,
                   ever_committed>>

\* Lines 291-297: an exception that is neither caught in the loop nor a
\* WebSocketDisconnect: close with 1011 (the socket still counts as connected),
\* then the finally block.
Crash(c) ==
    /\ sock' = [sock EXCEPT ![c] = "closed"]
    /\ close_code' = [close_code EXCEPT ![c] = INTERNAL_ERROR]
    /\ Goto(c, "finally")

\* The task resumes from the send_json of its `error` event: back to the loop,
\* or, when the call raises inside the except clause, out through the outer
\* `except Exception`.
ErrorSent(c) ==
    /\ pc[c] = "sending"
    /\ payload[c].type = "error"
    /\ IF Delivers(sock, c)
       THEN Goto(c, "active") /\ UNCHANGED <<sock, close_code>>
       ELSE Crash(c)
    /\ UNCHANGED <<token, rest, current_user, is_online, last_seen, now, messages, next_id,
                   ever_committed, cleanups, offline_written, offline_announced>>

(* ------------------------------------------ the event loop, lines 153-286 *)

\* The loop is at receive_json and the peer is there to send an event.
Receiving(c) == pc[c] = "active" /\ sock[c] = "open"

\* The branch as it would be if the broadcast did not depend on create_message.
AnnouncedAlways(outcome) == TRUE

\* The `message` branch reaches its broadcast only when create_message returned.
Announced(outcome) == outcome = "ok"

\* receive_json itself raises (a frame that is not JSON, a transport error).
TransportError(c) ==
    /\ Receiving(c)
    /\ Crash(c)
    /\ UNCHANGED <<token, rest, current_user, is_online, last_seen, now, messages, next_id,
                   ever_committed, cleanups, offline_written,
                   offline_announced>>

\* A `message` event that MessageCreate (missing or invalid content) or
\* create_message (404, 403, AttributeError) rejects.  The branch catches
\* SQLAlchemyError only: KeyError, ValidationError, HTTPException and
\* AttributeError leave the loop through the outer `except Exception`.
MessageRejected(c, conv, content) ==
    /\ Receiving(c)
    /\ \/ ~Validates(message_schema, content)
       \/ CreateCheck(conv, current_user[c]) # "ok"
       \/ ~HasAttachmentFields(message_schema)
    /\ Crash(c)
    /\ UNCHANGED <<token, rest, current_user, is_online, last_seen, now, messages, next_id,
                   ever_committed, cleanups, offline_written,
                   offline_announced>>

\* A `message` event that passes the checks, with the outcome of the storage
\* work in create_message: "ok"; "commit" (the insert's commit raises); "prune"
\* (the insert committed, the DELETE or the commit of _prune_old_messages
\* raises).  A
\* SQLAlchemyError is answered with rollback and an `error` event to the sender;
\* otherwise the row is broadcast to the conversation's participants.
MessageAccepted(c, conv, content, outcome) ==
    /\ Receiving(c)
    /\ Validates(message_schema, content)
    /\ CreateCheck(conv, current_user[c]) = "ok"
    /\ HasAttachmentFields(message_schema)
    /\ next_id <= MaxMsgs
    /\ LET row == NewRow(conv, current_user[c], c, strip[content])
           inserted == Append(messages, row)
       IN /\ CASE outcome = "ok" ->
                    /\ ~Referenced(inserted, user_deleted_messages, conv)
                    /\ messages' = prune_old_messages(inserted, conv)
                    /\ ever_committed' = ever_committed \cup {row}
                    /\ next_id' = next_id + 1
               [] outcome = "commit" ->
                    /\ UNCHANGED <<messages, ever_committed, next_id>>
               [] outcome = "prune" ->
                    /\ Surplus(inserted, conv) > 0
                    /\ messages' = inserted
                    /\ ever_committed' = ever_committed \cup {row}
                    /\ next_id' = next_id + 1
          /\ IF Announced(outcome)
             THEN Pump(c, active_connections, sock, Recipients(participants[conv], None),
                       [type |-> "message", conv |-> conv, mid |-> row.id,
                        from |-> current_user[c]],
                       "active")
             ELSE SendError(c)
    /\ UNCHANGED <<token, rest, current_user, sock, close_code, is_online, last_seen, now,
                   cleanups, offline_written, offline_announced>>

\* A `mark_read` event: flag the rows, commit, broadcast messages_read to the
\* participants of the conversation if it exists.
MarkReadEvent(c, conv) ==
    /\ Receiving(c)
    /\ messages' = MarkRead(messages, conv, current_user[c])
    /\ IF conv \in ConvIds
       THEN Pump(c, active_connections, sock, Recipients(participants[conv], None),
                 [type |-> "messages_read", conv |-> conv, mid |-> None,
                  from |-> current_user[c]],
                 "active")
       ELSE Goto(c, "active")
    /\ UNCHANGED <<token, rest, current_user, sock, close_code, is_online, last_seen, now,
                   next_id, ever_committed, cleanups, offline_written,
                   offline_announced>>

\* A `mark_read` event whose commit raises: rollback, log, back to the loop.
MarkReadCommitFails(c, conv) ==
    /\ Receiving(c)
    /\ Goto(c, "active")
    /\ UNCHANGED <<token, rest, current_user, sock, close_code, is_online, last_seen, now,
                   messages, next_id, ever_committed, cleanups, offline_written,
                   offline_announced>>

\* A `typing` event: broadcast to the participants of the conversation, if it
\* exists, except the sender.
TypingEvent(c, conv) ==
    /\ Receiving(c)
    /\ IF conv \in ConvIds
       THEN Pump(c, active_connections, sock,
                 Recipients(participants[conv], current_user[c]),
                 [type |-> "typing", conv |-> conv, mid |-> None,
                  from |-> current_user[c]],
                 "active")
       ELSE Goto(c, "active")
    /\ UNCHANGED <<token, rest, current_user, sock, close_code, is_online, last_seen, now,
                   messages, next_id, ever_committed, cleanups,
                   offline_written, offline_announced>>

\* Two of the five event types of line 267; the branch treats all alike.
CallTypes == {"call_offer", "call_end"}

\* The relay as it would be if it went to every registered user.
CallRecipientsEveryone(target_user_id) == keys(active_connections)

\* Lines 269-284: nothing for a missing target_user_id, else one
\* send_personal_message to it.
CallRecipients(target_user_id) ==
    IF target_user_id = None THEN <<>> ELSE <<target_user_id>>

\* A call-signaling event: the payload carries the event's type and the
\* sender's id and goes to target_user_id alone.
CallEvent(c, target, type) ==
    /\ Receiving(c)
    /\ Pump(c, active_connections, sock, CallRecipients(target),
            [type |-> type, conv |-> None, mid |-> None, from |-> current_user[c]],
            "active")
    /\ UNCHANGED <<token, rest, current_user, sock, close_code, is_online, last_seen, now,
                   messages, next_id, ever_committed, cleanups,
                   offline_written, offline_announced>>

\* What a `message` event may carry as its content.
EventContents == {"", " ", "hi", "long", NoContent}

Next ==
    \E c \in Conns :
        \/ Authenticate(c)
        \/ RegisterOnline(c)
        \/ RegisterCommitFails(c)
        \/ ClientDrop(c)
        \/ ClientGone(c)
        \/ Finally(c)
        \/ SendDone(c)
        \/ ErrorSent(c)
        \/ TransportError(c)
        \/ \E conv \in EventConvs, content \in EventContents :
               MessageRejected(c, conv, content)
        \/ \E conv \in EventConvs, content \in EventContents,
              outcome \in {"ok", "commit", "prune"} :
               MessageAccepted(c, conv, content, outcome)
        \/ \E conv \in EventConvs : MarkReadEvent(c, conv)
        \/ \E conv \in EventConvs : MarkReadCommitFails(c, conv)
        \/ \E conv \in EventConvs : TypingEvent(c, conv)
        \/ \E target \in Users \cup {None}, type \in CallTypes :
               CallEvent(c, target, type)

Spec == Init /\ [][Next]_vars

\* Three connections that only open, send messages and close.
NextTrio ==
    \E c \in Conns :
        \/ Authenticate(c)
        \/ RegisterOnline(c)
        \/ ClientDrop(c)
        \/ ClientGone(c)
        \/ SendDone(c)
        \/ \E conv \in ConvIds : MessageAccepted(c, conv, "hi", "ok")

SpecTrio == InitTrio /\ [][NextTrio]_vars

(* ------------------------------------------------------- MessageService *)

\* What the MessageService calls never touch.
ws == <<pc, token, current_user, sock, close_code, active_connections, is_online,
        last_seen, now, bq, inflight, payload, cont, inbox, cleanups, offline_written,
        offline_announced, message_schema, conversations, conversation_participants,
        pruning>>

\* limit: int = None of get_conversation_messages.
NoLimit == -1
Limits == {NoLimit, 0, 1, MaxMsgs + 1}

\* The row with this id, if the table has it.
HasRow(rows, message_id) == \E i \in 1..Len(rows) : rows[i].id = message_id
Row(rows, message_id) == rows[CHOOSE i \in 1..Len(rows) : rows[i].id = message_id]

\* MessageService._message_to_response.
message_to_response(message) ==
    [id |-> message.id, content |-> decrypt(message.content),
     conversation_id |-> message.conversation_id, sender_id |-> message.sender_id,
     is_deleted |-> message.is_deleted, is_edited |-> message.is_edited]

Raised(call, status) == [call |-> call, status |-> status, rows |-> <<>>]
Returned(call, status, rows) == [call |-> call, status |-> status, rows |-> rows]

\* The listing as it would be without the overlay filter.
VisibleAll(rows, table, conversation_id, user_id) == RowsOf(rows, conversation_id)

\* Lines 94-100: the rows of the conversation the user has no overlay row for,
\* oldest first.
Visible(rows, table, conversation_id, user_id) ==
    SelectSeq(RowsOf(rows, conversation_id),
              LAMBDA m : Overlays(table, user_id, m.id) = 0)

\* Lines 90-105: order by created_at descending, limit, reverse.
LastN(q, limit) ==
    LET n == IF limit < Len(q) THEN limit ELSE Len(q)
    IN SubSeq(q, Len(q) - n + 1, Len(q))

Listing(rows, table, conversation_id, user_id, limit) ==
    LET n == IF limit = NoLimit THEN MAX_MESSAGES_PER_CONVERSATION ELSE limit
        q == LastN(Visible(rows, table, conversation_id, user_id), n)
    IN [i \in 1..Len(q) |-> message_to_response(q[i])]

\* POST /conversations/{id}/messages (conversations.py:161-200) and
\* MessageService.create_message: 422 from MessageCreate, 404, 403, the
\* AttributeError of lines 50-51, then insert, commit, prune, commit.  outcome
\* is that of the storage work, as in the `message` event.
send_message(user, conv, content, outcome) ==
    /\ IF ~Validates(message_schema, content)
       THEN /\ outcome = "ok"
            /\ response' = Raised("send_message", 422)
            /\ UNCHANGED <<messages, next_id, ever_committed>>
       ELSE IF CreateCheck(conv, user) # "ok"
       THEN /\ outcome = "ok"
            /\ response' = Raised("send_message",
                                  IF CreateCheck(conv, user) = "not_found" THEN 404 ELSE 403)
            /\ UNCHANGED <<messages, next_id, ever_committed>>
       ELSE IF ~HasAttachmentFields(message_schema)
       THEN /\ outcome = "ok"
            /\ response' = Raised("send_message", 500)
            /\ UNCHANGED <<messages, next_id, ever_committed>>
       ELSE /\ next_id <= MaxMsgs
            /\ LET row == NewRow(conv, user, None, strip[content])
                   inserted == Append(messages, row)
               IN CASE outcome = "ok" ->
                         /\ ~Referenced(inserted, user_deleted_messages, conv)
                         /\ messages' = prune_old_messages(inserted, conv)
                         /\ ever_committed' = ever_committed \cup {row}
                         /\ next_id' = next_id + 1
                         /\ response' = Returned("send_message", 201,
                                                 <<message_to_response(row)>>)
                    [] outcome = "commit" ->
                         /\ response' = Raised("send_message", 500)
                         /\ UNCHANGED <<messages, ever_committed, next_id>>
                    [] outcome = "prune" ->
                         /\ Surplus(inserted, conv) > 0
                         /\ messages' = inserted
                         /\ ever_committed' = ever_committed \cup {row}
                         /\ next_id' = next_id + 1
                         /\ response' = Raised("send_message", 500)
    /\ UNCHANGED <<ws, user_deleted_messages>>

\* MessageService.get_conversation_messages: 404, 403, else the listing.
get_conversation_messages(user, conv, limit) ==
    /\ response' =
           IF CreateCheck(conv, user) = "not_found"
           THEN Raised("get_conversation_messages", 404)
           ELSE IF CreateCheck(conv, user) = "forbidden"
           THEN Raised("get_conversation_messages", 403)
           ELSE Returned("get_conversation_messages", 200,
                         Listing(messages, user_deleted_messages, conv, user, limit))
    /\ UNCHANGED <<ws, messages, next_id, ever_committed, user_deleted_messages>>

\* The update as it would be if the new content were stored as it came.
EditedPlain(message, content) ==
    [message EXCEPT !.content = content, !.is_edited = TRUE]

\* The row update of edit_message, lines 120-123.
Edited(message, content) ==
    [message EXCEPT !.content = encrypt(content), !.is_edited = TRUE]

\* The row with message_id replaced.
Put(rows, message) ==
    [i \in 1..Len(rows) |-> IF rows[i].id = message.id THEN message ELSE rows[i]]

\* MessageService.edit_message: 404, 403 (not the sender), 400 (deleted), else
\* store the encrypted new content and the edited flag.
edit_message(message_id, user_id, content) ==
    /\ IF ~HasRow(messages, message_id)
       THEN response' = Raised("edit_message", 404) /\ messages' = messages
       ELSE LET message == Row(messages, message_id) IN
            IF message.sender_id # user_id
            THEN response' = Raised("edit_message", 403) /\ messages' = messages
            ELSE IF message.is_deleted
            THEN response' = Raised("edit_message", 400) /\ messages' = messages
            ELSE /\ messages' = Put(messages, Edited(message, content))
                 /\ response' = Returned("edit_message", 200,
                                         <<message_to_response(Edited(message, content))>>)
    /\ UNCHANGED <<ws, next_id, ever_committed, user_deleted_messages>>

\* The "for_everyone" branch as it would be if it left the flag alone.
TombstoneUnflagged(message) == message

\* The "for_everyone" branch as it would be if it flipped the flag.
TombstoneToggled(message) == [message EXCEPT !.is_deleted = ~@]

\* Line 140: message.is_deleted = True, the row stays.
Tombstone(message) == [message EXCEPT !.is_deleted = TRUE]

\* The "for_me" branch as it would be without the look-up of line 146.
AddOverlayAlways(table, user_id, message_id) ==
    [table EXCEPT ![<<user_id, message_id>>] = @ + 1]

\* Lines 146-154: add the overlay row unless the pair has one.
AddOverlay(table, user_id, message_id) ==
    IF Overlays(table, user_id, message_id) = 0
    THEN [table EXCEPT ![<<user_id, message_id>>] = @ + 1]
    ELSE table

\* MessageService.delete_message: 404; "for_everyone": 403 (not the sender),
\* else set is_deleted; "for_me": the overlay row; any other type: 400.
delete_message(message_id, user_id, delete_type) ==
    /\ IF ~HasRow(messages, message_id)
       THEN /\ response' = Raised("delete_message", 404)
            /\ UNCHANGED <<messages, user_deleted_messages>>
       ELSE LET message == Row(messages, message_id) IN
            CASE delete_type = "for_everyone" ->
                   IF message.sender_id # user_id
                   THEN /\ response' = Raised("delete_message", 403)
                        /\ UNCHANGED <<messages, user_deleted_messages>>
                   ELSE /\ messages' = Put(messages, Tombstone(message))
                        /\ response' = Returned("delete_message", 200,
                                                <<message_to_response(Tombstone(message))>>)
                        /\ UNCHANGED user_deleted_messages
              [] delete_type = "for_me" ->
                   /\ user_deleted_messages' =
                          AddOverlay(user_deleted_messages, user_id, message_id)
                   /\ response' = Returned("delete_message", 200,
                                           <<message_to_response(message)>>)
                   /\ UNCHANGED messages
              [] OTHER ->
                   /\ response' = Raised("delete_message", 400)
                   /\ UNCHANGED <<messages, user_deleted_messages>>
    /\ UNCHANGED <<ws, next_id, ever_committed>>

\* What a send may carry as its content, and what an edit may.
SendContents == {"", " ", "hi", " hi ", "long"}
EditContents == {"yo"}
DeleteTypes == {"for_me", "for_everyone", "for_all"}

\* The service alone: no connection is ever opened.
InitStore == token = <<"absent", "absent", "absent">> /\ Start

\* Who sends: a participant and the outsider.  Who edits and deletes: the
\* sender of the messages and the other participant.
Senders == {1, 3}
Editors == {1, 2}

NextStore ==
    \/ \E user \in Senders, conv \in EventConvs, content \in SendContents,
          outcome \in {"ok", "commit", "prune"} :
           send_message(user, conv, content, outcome)
    \/ \E user \in Callers, conv \in EventConvs, limit \in Limits :
           get_conversation_messages(user, conv, limit)
    \/ \E user \in Editors, message_id \in MessageIds, content \in EditContents :
           edit_message(message_id, user, content)
    \/ \E user \in Editors, message_id \in MessageIds, delete_type \in DeleteTypes :
           delete_message(message_id, user, delete_type)

SpecStore == InitStore /\ [][NextStore]_vars

(* -------------------------------------------------- ConversationService *)

Range(q) == {q[i] : i \in 1..Len(q)}

\* User ids a create request may name: three users and the id of nobody; its
\* participant_ids: no, one or two of them, in any order, repeated or not.
NamedIds == {1, 2, 3, 9}
IdLists == UNION {[1..n -> NamedIds] : n \in {0, 1, 2}}

\* Conversation.participants: the users of the conversation's association rows.
ParticipantsOf(table, conversation_id) ==
    {r.user_id : r \in {x \in table : x.conversation_id = conversation_id}}

\* conversation.py:33-40: drop repeated ids, keep the order.
RECURSIVE unique_ids(_)
unique_ids(participant_ids) ==
    IF participant_ids = <<>> THEN <<>>
    ELSE LET front == unique_ids(SubSeq(participant_ids, 1, Len(participant_ids) - 1))
             last == participant_ids[Len(participant_ids)]
         IN IF \E i \in 1..Len(front) : front[i] = last THEN front
            ELSE Append(front, last)

\* The participant_ids the service gets, or <<>> when ConversationCreate raises
\* (min_items=1: a list that validates is never empty).  The class of schemas/__init__.py validates participant_ids before
\* is_group is in `values` (it is declared after it), so it takes the request for
\* a direct one whatever is_group says, and does not drop repeated ids.  The
\* class of schemas/conversation.py drops them and tests the count by type.
ConversationCreate(schema, participant_ids, is_group) ==
    IF schema = "package"
    THEN IF Len(participant_ids) = 1 THEN participant_ids ELSE <<>>
    ELSE LET ids == unique_ids(participant_ids)
         IN IF is_group /\ Len(ids) < 2 THEN <<>>
            ELSE IF ~is_group /\ Len(ids) # 1 THEN <<>>
            ELSE ids

\* The rows of `convs` of one type, oldest first.
OfType(convs, is_group) == SelectSeq(convs, LAMBDA c : c.is_group = is_group)

\* The search as it would be if it never found anything.
find_nothing(convs, table, ids, is_group) == None

\* _find_existing_direct_conversation and _find_existing_group_conversation:
\* the id of the first conversation of the type that holds every user of `ids`
\* and nobody else, None if there is none.  The direct search takes the first
\* row that holds both users and only then counts its participants; the group
\* search gives up on fewer than two ids.
find_existing(convs, table, ids, is_group) ==
    LET q == SelectSeq(OfType(convs, is_group),
                       LAMBDA c : ids \subseteq ParticipantsOf(table, c.id))
        exact == SelectSeq(q, LAMBDA c : ParticipantsOf(table, c.id) = ids)
    IN IF Cardinality(ids) < 2 THEN None
       ELSE IF ~is_group
       THEN IF Cardinality(ids) = 2 /\ q # <<>> /\ ParticipantsOf(table, q[1].id) = ids
            THEN q[1].id ELSE None
       ELSE IF exact # <<>> THEN exact[1].id ELSE None

\* ConversationService._conversation_to_response, without the timestamps, the
\* last message and the unread count.
conversation_to_response(convs, table, conversation_id) ==
    [id |-> conversation_id, is_group |-> convs[conversation_id].is_group,
     participants |-> ParticipantsOf(table, conversation_id)]

\* POST /conversations/ and ConversationService.create_conversation: 422 from
\* ConversationCreate, 404 for an id of nobody, the existing conversation of the
\* same participants and type if the search finds one, else a new row with its
\* association rows.  outcome "commit": db.commit() of line 77 raises.
create_conversation(creator, participant_ids, is_group, outcome) ==
    LET data == ConversationCreate(message_schema, participant_ids, is_group) IN
    /\ IF data = <<>>
       THEN /\ outcome = "ok"
            /\ response' = Raised("create_conversation", 422)
            /\ UNCHANGED <<conversations, conversation_participants>>
       ELSE LET ids == Range(data) \cup {creator}
                existing == IF ~is_group /\ Cardinality(ids) # 2 THEN None
                            ELSE find_existing(conversations, conversation_participants,
                                               ids, is_group)
                id == Len(conversations) + 1
                added == {[user_id |-> u, conversation_id |-> id, last_read_at |-> None] :
                             u \in ids}
            IN IF ~(ids \subseteq Users)
               THEN /\ outcome = "ok"
                    /\ response' = Raised("create_conversation", 404)
                    /\ UNCHANGED <<conversations, conversation_participants>>
               ELSE IF existing # None
               THEN /\ outcome = "ok"
                    /\ response' = Returned("create_conversation", 201,
                           <<conversation_to_response(conversations,
                                 conversation_participants, existing)>>)
                    /\ UNCHANGED <<conversations, conversation_participants>>
               ELSE IF outcome = "commit"
               THEN /\ response' = Raised("create_conversation", 500)
                    /\ UNCHANGED <<conversations, conversation_participants>>
               ELSE /\ Len(conversations) < MaxConvs
                    /\ conversations' =
                           Append(conversations,
                                  [id |-> id, is_group |-> is_group, updated_at |-> now])
                    /\ conversation_participants' = conversation_participants \cup added
                    /\ response' = Returned("create_conversation", 201,
                           <<conversation_to_response(conversations',
                                 conversation_participants', id)>>)
    /\ UNCHANGED <<pc, token, current_user, sock, close_code, active_connections,
                   is_online, last_seen, now, messages, next_id, bq, inflight, payload,
                   cont, inbox, ever_committed, cleanups, offline_written,
                   offline_announced, message_schema, user_deleted_messages, pruning>>

\* The conversation service alone; callers are users 1, 2 and 3.
NextConv ==
    \E creator \in Callers, participant_ids \in IdLists, is_group \in BOOLEAN,
          outcome \in {"ok", "commit"} :
           create_conversation(creator, participant_ids, is_group, outcome)

SpecConv == InitStore /\ [][NextConv]_vars

(* ------------------------------------------- read cursors and attachments *)

\* file_path of a message: none, or the path an upload returned.
FilePaths == {None, 1}

\* The row create_message inserts, with the columns mark_conversation_as_read
\* and _get_unread_count read: created_at (the column default, utcnow at the
\* insert), file_path and fully_read_at.
NewMessage(conversation_id, sender, file_path, created_at) ==
    [id |-> next_id, content |-> encrypt("hi"), conversation_id |-> conversation_id,
     sender_id |-> sender, is_deleted |-> FALSE, is_edited |-> FALSE,
     is_read |-> FALSE, via |-> None, created_at |-> created_at,
     file_path |-> file_path, fully_read_at |-> None]

\* MessageService.create_message as the websocket handler calls it, with the
\* file_path of the event: 404, 403, the AttributeError of lines 50-51, else
\* insert, commit, prune, commit.
create_message(sender, conversation_id, file_path) ==
    /\ IF conversation_id \notin 1..Len(conversations)
       THEN /\ response' = Raised("create_message", 404)
            /\ UNCHANGED <<messages, next_id, ever_committed, now>>
       ELSE IF sender \notin ParticipantsOf(conversation_participants, conversation_id)
       THEN /\ response' = Raised("create_message", 403)
            /\ UNCHANGED <<messages, next_id, ever_committed, now>>
       ELSE IF ~HasAttachmentFields(message_schema)
       THEN /\ response' = Raised("create_message", 500)
            /\ UNCHANGED <<messages, next_id, ever_committed, now>>
       ELSE /\ next_id <= MaxMsgs /\ now < MaxTime
            /\ LET row == NewMessage(conversation_id, sender, file_path, now + 1)
                   inserted == Append(messages, row)
               IN /\ ever_committed' = ever_committed \cup {row}
                  /\ IF Referenced(inserted, user_deleted_messages, conversation_id)
                     THEN /\ messages' = inserted
                          /\ response' = Raised("create_message", 500)
                     ELSE /\ messages' = prune_old_messages(inserted, conversation_id)
                          /\ response' = Returned("create_message", 201,
                                                  <<message_to_response(row)>>)
            /\ next_id' = next_id + 1
            /\ now' = now + 1
    /\ UNCHANGED <<pc, token, current_user, sock, close_code, active_connections,
                   is_online, last_seen, bq, inflight, payload, cont, inbox, cleanups,
                   offline_written, offline_announced, message_schema,
                   user_deleted_messages, conversations, conversation_participants,
                   pruning>>

\* The update as it would be if it moved the cursor of every participant.
MarkedAll(table, conversation_id, user_id, t) ==
    {IF r.conversation_id = conversation_id
     THEN [r EXCEPT !.last_read_at = t] ELSE r : r \in table}

\* Lines 278-285: the caller's association row gets last_read_at = now.
Marked(table, conversation_id, user_id, t) ==
    {IF r.conversation_id = conversation_id /\ r.user_id = user_id
     THEN [r EXCEPT !.last_read_at = t] ELSE r : r \in table}

\* Lines 290-292: func.min(last_read_at) over the conversation's association
\* rows; the aggregate skips the rows whose last_read_at is NULL.
min_read_at(table, conversation_id) ==
    LET read == {r.last_read_at :
                    r \in {x \in table : /\ x.conversation_id = conversation_id
                                         /\ x.last_read_at # None}}
    IN IF read = {} THEN None ELSE CHOOSE t \in read : \A u \in read : t <= u

\* Lines 297-305: the conversation's messages with a file and no fully_read_at
\* that were created at or before `min` get fully_read_at = t.
FullyRead(rows, conversation_id, min, t) ==
    [i \in 1..Len(rows) |->
        IF /\ rows[i].conversation_id = conversation_id
           /\ rows[i].file_path # None
           /\ rows[i].fully_read_at = None
           /\ rows[i].created_at <= min
        THEN [rows[i] EXCEPT !.fully_read_at = t]
        ELSE rows[i]]

\* ConversationService.mark_conversation_as_read: 404, 403, else the cursor and
\* its commit, then the fully-read update and its commit.  outcome "commit": the
\* first commit raises; "flag": the second one does.
mark_conversation_as_read(conversation_id, user, outcome) ==
    /\ IF conversation_id \notin 1..Len(conversations)
       THEN /\ outcome = "ok"
            /\ response' = Raised("mark_conversation_as_read", 404)
            /\ UNCHANGED <<messages, conversation_participants, now>>
       ELSE IF user \notin ParticipantsOf(conversation_participants, conversation_id)
       THEN /\ outcome = "ok"
            /\ response' = Raised("mark_conversation_as_read", 403)
            /\ UNCHANGED <<messages, conversation_participants, now>>
       ELSE /\ now < MaxTime
            /\ now' = now + 1
            /\ LET marked == Marked(conversation_participants, conversation_id, user, now')
                   min == min_read_at(marked, conversation_id)
               IN CASE outcome = "commit" ->
                         /\ response' = Raised("mark_conversation_as_read", 500)
                         /\ UNCHANGED <<messages, conversation_participants>>
                    [] outcome = "flag" ->
                         /\ conversation_participants' = marked
                         /\ response' = Raised("mark_conversation_as_read", 500)
                         /\ UNCHANGED messages
                    [] outcome = "ok" ->
                         /\ conversation_participants' = marked
                         /\ messages' = IF min # None
                                        THEN FullyRead(messages, conversation_id, min, now')
                                        ELSE messages
                         /\ response' = Returned("mark_conversation_as_read", 200,
                                                 <<[last_read_at |-> now']>>)
    /\ UNCHANGED <<pc, token, current_user, sock, close_code, active_connections,
                   is_online, last_seen, next_id, bq, inflight, payload, cont, inbox,
                   ever_committed, cleanups, offline_written, offline_announced,
                   message_schema, user_deleted_messages, conversations, pruning>>

\* ConversationService._get_unread_count: 0 without an association row, else the
\* conversation's messages of other senders created after the cursor, all of
\* them while the cursor is NULL.
get_unread_count(rows, table, conversation_id, user_id) ==
    LET mine == {r \in table : r.conversation_id = conversation_id /\ r.user_id = user_id}
        last_read_at == (CHOOSE r \in mine : TRUE).last_read_at
    IN IF mine = {} THEN 0
       ELSE Cardinality({i \in 1..Len(rows) :
                /\ rows[i].conversation_id = conversation_id
                /\ rows[i].sender_id # user_id
                /\ last_read_at # None => rows[i].created_at > last_read_at})

\* Conversation ids a caller may name: two that may exist and one that does not.
NamedConvs == {1, 2, 7}

\* Messages and read cursors: user 1 may open a direct conversation with user 3
\* next to the one with user 2; users 1, 2 and 3 send and mark read.
NextRead ==
    \/ create_conversation(1, <<3>>, FALSE, "ok")
    \/ \E sender \in Callers, conversation_id \in NamedConvs, file_path \in FilePaths :
           create_message(sender, conversation_id, file_path)
    \/ \E user \in Callers, conversation_id \in NamedConvs,
          outcome \in {"ok", "commit", "flag"} :
           mark_conversation_as_read(conversation_id, user, outcome)

SpecRead == InitStore /\ [][NextRead]_vars

(* ---------------------------------------------------------- AuthService *)

\* Usernames a login may carry: two active users, the deactivated one, nobody.
LoginNames == {"ann", "bob", "dan", "eve"}

\* POST /auth/login and AuthService.authenticate_user: 401 for an unknown
\* username or a wrong password, 403 for a deactivated user, else the user row
\* gets is_online = True and last_seen = utcnow, and the token is returned.
authenticate_user(name, password_ok) ==
    /\ IF ~password_ok \/ \A u \in Users : username[u] # name
       THEN /\ response' = Raised("authenticate_user", 401)
            /\ UNCHANGED <<is_online, last_seen, now>>
       ELSE LET user == CHOOSE u \in Users : username[u] = name IN
            IF ~is_active[user]
            THEN /\ response' = Raised("authenticate_user", 403)
                 /\ UNCHANGED <<is_online, last_seen, now>>
            ELSE /\ now < MaxTime
                 /\ now' = now + 1
                 /\ is_online' = [is_online EXCEPT ![user] = TRUE]
                 /\ last_seen' = [last_seen EXCEPT ![user] = now']
                 /\ response' = Returned("authenticate_user", 200, <<>>)
    /\ UNCHANGED <<pc, token, current_user, sock, close_code, active_connections,
                   messages, next_id, bq, inflight, payload, cont, inbox,
                   ever_committed, cleanups, offline_written, offline_announced,
                   message_schema, user_deleted_messages, conversations,
                   conversation_participants, pruning>>

\* POST /auth/logout and AuthService.logout_user: is_online = False and
\* last_seen = utcnow for the caller.
logout_user(user) ==
    /\ now < MaxTime
    /\ now' = now + 1
    /\ is_online' = [is_online EXCEPT ![user] = FALSE]
    /\ last_seen' = [last_seen EXCEPT ![user] = now']
    /\ response' = Returned("logout_user", 204, <<>>)
    /\ UNCHANGED <<pc, token, current_user, sock, close_code, active_connections,
                   messages, next_id, bq, inflight, payload, cont, inbox,
                   ever_committed, cleanups, offline_written, offline_announced,
                   message_schema, user_deleted_messages, conversations,
                   conversation_participants, pruning>>

\* The REST calls of a client without a websocket: log in, log out, send into
\* conversation 1 and list it.
NextAuth ==
    \/ \E name \in LoginNames, password_ok \in BOOLEAN : authenticate_user(name, password_ok)
    \/ \E user \in Editors : logout_user(user)
    \/ \E user \in Editors : send_message(user, 1, "hi", "ok")
    \/ \E user \in Editors : get_conversation_messages(user, 1, NoLimit)

SpecAuth == InitStore /\ [][NextAuth]_vars

(* --------------------------------------------- scripts/cleanup_files.py *)

\* datetime.utcnow() - timedelta(days=10), the ten days scaled to one reading
\* of the clock.
retention_period == 1

\* file_path of a message with its file_type as POST /uploads returned them:
\* none, an image, a document.
Attachments == {None, 1, 2}
file_type(file_path) ==
    CASE file_path = None -> None [] file_path = 1 -> "image" [] OTHER -> "document"

\* The file holds two bodies of the loop over the expired messages: lines 44-66
\* ("expired") and lines 69-84 ("retention"), the second without its query.
Versions == {"expired", "retention"}

\* Lines 36-40: messages with a file, not flagged deleted, created before the
\* cutoff.
Expired(message, cutoff_date) ==
    /\ message.file_path # None
    /\ ~message.is_deleted
    /\ message.created_at < cutoff_date

\* Lines 58-62: the body becomes "[File expired]" as it is, file_path and
\* file_type become NULL.  Lines 69-82: the body becomes the encrypted
\* placeholder of the file_type, file_path NULL, is_deleted True.
Cleaned(message, version) ==
    IF version = "expired"
    THEN [message EXCEPT !.content = FILE_EXPIRED, !.file_path = None]
    ELSE [message EXCEPT
             !.content = encrypt(placeholder_text(file_type(message.file_path))),
             !.file_path = None, !.is_deleted = TRUE]

\* One run of the script: every expired message is rewritten, one commit.
cleanup_files(version) ==
    /\ messages' = [i \in 1..Len(messages) |->
                        IF Expired(messages[i], now - retention_period)
                        THEN Cleaned(messages[i], version)
                        ELSE messages[i]]
    /\ UNCHANGED <<ws, next_id, ever_committed, user_deleted_messages, response>>

\* Time passes between two calls.
Tick ==
    /\ now < MaxTime
    /\ now' = now + 1
    /\ UNCHANGED <<pc, token, current_user, sock, close_code, active_connections,
                   is_online, last_seen, messages, next_id, bq, inflight, payload, cont,
                   inbox, ever_committed, cleanups, offline_written, offline_announced,
                   rest>>

\* The message store with attachments and the cleanup script: the participants
\* of conversation 1 send, edit and delete, time passes, the script runs.
NextCleanup ==
    \/ \E sender \in Editors, file_path \in Attachments : create_message(sender, 1, file_path)
    \/ \E user \in Editors, message_id \in MessageIds, content \in EditContents :
           edit_message(message_id, user, content)
    \/ \E user \in Editors, message_id \in MessageIds :
           delete_message(message_id, user, "for_everyone")
    \/ Tick
    \/ \E version \in Versions : cleanup_files(version)

SpecCleanup == InitStore /\ [][NextCleanup]_vars

(* ------------------------------------- create_message in two processes *)

\* create_message is a sequence of statements on the shared database: the
\* insert and its commit (lines 54-56), then in _prune_old_messages the count
\* (167-169), the select of the oldest ids (173-177) and the delete with its
\* commit (180-184).  Inside one event loop a call runs to its end; the
\* statements of calls in two server processes on the same database interleave.
others == <<pc, token, current_user, sock, close_code, active_connections, is_online,
            last_seen, now, bq, inflight, payload, cont, inbox, cleanups, offline_written,
            offline_announced, message_schema, user_deleted_messages, response,
            conversations, conversation_participants>>

\* Lines 54-56: db.add(new_message), db.commit(), db.refresh(new_message).
add_and_commit(w, sender, conv) ==
    /\ pruning[w].at = "idle"
    /\ CreateCheck(conv, sender) = "ok"
    /\ HasAttachmentFields(message_schema)
    /\ next_id <= MaxMsgs
    /\ LET row == NewRow(conv, sender, None, "hi")
       IN /\ messages' = Append(messages, row)
          /\ ever_committed' = ever_committed \cup {row}
    /\ next_id' = next_id + 1
    /\ pruning' = [pruning EXCEPT ![w] = [Idle EXCEPT !.at = "count"]]
    /\ UNCHANGED others

\* Lines 167-171: message_count, and the test against the ceiling; the call
\* returns when the count is not above it.
count_messages(w, conv) ==
    /\ pruning[w].at = "count"
    /\ LET message_count == Len(RowsOf(messages, conv))
       IN pruning' = [pruning EXCEPT ![w] =
                         IF message_count > MAX_MESSAGES_PER_CONVERSATION
                         THEN [Idle EXCEPT !.at = "select", !.message_count = message_count]
                         ELSE Idle]
    /\ UNCHANGED <<others, messages, next_id, ever_committed>>

\* Lines 173-177: the ids of the first message_count - MAX rows of the
\* conversation in created_at order, as the table is now.
select_oldest(w, conv) ==
    /\ pruning[w].at = "select"
    /\ LET q == RowsOf(messages, conv)
           limit == pruning[w].message_count - MAX_MESSAGES_PER_CONVERSATION
           n == IF limit < Len(q) THEN limit ELSE Len(q)
       IN pruning' = [pruning EXCEPT ![w] =
                         [@ EXCEPT !.at = "delete",
                                   !.messages_to_delete = {q[i].id : i \in 1..n}]]
    /\ UNCHANGED <<others, messages, next_id, ever_committed>>

\* Lines 180-184: delete the rows with these ids, commit; the delete raises
\* when one of them is referenced by a row of user_deleted_messages.
delete_oldest(w) ==
    /\ pruning[w].at = "delete"
    /\ messages' =
           IF \E id \in pruning[w].messages_to_delete, u \in Callers :
                  Overlays(user_deleted_messages, u, id) > 0
           THEN messages
           ELSE SelectSeq(messages, LAMBDA m : m.id \notin pruning[w].messages_to_delete)
    /\ pruning' = [pruning EXCEPT ![w] = Idle]
    /\ UNCHANGED <<others, next_id, ever_committed>>

\* Two processes, each serving creates of users 1, 2 and 3 in conversation 1.
NextRace ==
    \E w \in Workers :
        \/ \E sender \in Callers : add_and_commit(w, sender, 1)
        \/ count_messages(w, 1)
        \/ select_oldest(w, 1)
        \/ delete_oldest(w)

SpecRace == InitStore /\ [][NextRace]_vars

(* ------------------------------------------------ tombstones and reads *)

\* User 1 sends into conversation 1 (with or without a file) and edits; both
\* participants delete, user 1 for everyone and user 2 for themselves or for
\* everyone, and user 2 marks the conversation read.
NextFlag ==
    \/ \E file_path \in FilePaths : create_message(1, 1, file_path)
    \/ \E message_id \in MessageIds, content \in EditContents :
           edit_message(message_id, 1, content)
    \/ \E message_id \in MessageIds : delete_message(message_id, 1, "for_everyone")
    \/ \E message_id \in MessageIds, delete_type \in {"for_me", "for_everyone"} :
           delete_message(message_id, 2, delete_type)
    \/ mark_conversation_as_read(1, 2, "ok")

SpecFlag == InitStore /\ [][NextFlag]_vars

(* ================================================================ claims *)

InConversation(u, conv) ==
    conv \in ConvIds /\ \E i \in 1..Len(participants[conv]) : participants[conv][i] = u

RowOf(mid) == CHOOSE r \in ever_committed : r.id = mid

\* C1: every `message` push, delivered or being sent, is of a row whose insert
\* has committed; and when the commit inside create_message raises, the step
\* delivers no push, stores nothing, and sends an `error` event on the sender's
\* open socket.
C1_DurabilityPrecedesVisibility ==
    [][/\ \A h \in Conns : \A i \in 1..Len(inbox'[h]) :
              \E r \in ever_committed' : r.id = inbox'[h][i]
       /\ \A c \in Conns :
              payload'[c].type = "message" =>
                  \E r \in ever_committed' : r.id = payload'[c].mid
       /\ \A c \in Conns, conv \in EventConvs :
              MessageAccepted(c, conv, "hi", "commit") =>
                  /\ inbox' = inbox
                  /\ messages' = messages
                  /\ ever_committed' = ever_committed
                  /\ payload'[c].type = "error"
                  /\ inflight'[c].handle = c
                  /\ sock'[c] = "open"]_vars

\* C1 witness: a connection has got a `message` push and a task is sending the
\* `error` event that answers a failed commit.
C1_Witness ==
    /\ \E h \in Conns : Len(inbox[h]) > 0
    /\ \E c \in Conns : pc[c] = "sending" /\ payload[c].type = "error"

\* C2: a `message` event that fails (unknown conversation, sender not a
\* participant, missing or invalid content) is answered with an `error` event
\* on the same connection, which stays in its loop.
C2_EventFailureKeepsActive ==
    [][\A c \in Conns, conv \in EventConvs, content \in EventContents :
           MessageRejected(c, conv, content) =>
               /\ pc'[c] \in {"active", "sending"}
               /\ payload'[c].type = "error"
               /\ sock'[c] = "open"
               /\ active_connections'[current_user[c]] = active_connections[current_user[c]]]_vars

\* C3: a connection that authenticated and is closed has run its cleanup once:
\* deregistered, is_online = False committed with a fresh last_seen,
\* user_offline broadcast, storage released.
C3_CleanupOnEveryExit ==
    \A c \in Conns :
        (pc[c] = "closed" /\ current_user[c] # None) =>
            /\ cleanups[c] = 1
            /\ active_connections[current_user[c]] # c
            /\ offline_written[c]
            /\ offline_announced[c]

\* A connection that is registered, marked online and in its event loop.
Live(c) == pc[c] = "active" \/ (pc[c] = "sending" /\ cont[c] = "active")

\* C4: when a connection of a user that is in its event loop runs its cleanup
\* while a later connection of the same user holds the registry entry and is in
\* its own event loop, the cleanup leaves the user's is_online flag true.
C4_FirstCloseKeepsOnline ==
    [][\A c \in Conns, d \in Conns :
           (/\ c # d
            /\ current_user[c] = current_user[d]
            /\ Live(c) /\ Live(d)
            /\ active_connections[current_user[d]] = d
            /\ is_online[current_user[d]]
            /\ cleanups'[c] = cleanups[c] + 1)
           => is_online'[current_user[d]]]_vars

Unauthenticated(c) == token[c] \in {"bad", "eve", "dan"}

\* C6: a connection whose token does not decode, names nobody or names an
\* inactive user only ever goes from connecting to closed, with code 1008; it is
\* never registered, never runs the cleanup, and its step changes no registry
\* entry, no is_online or last_seen, and sends nothing.
C6_AuthFailureTouchesNothing ==
    [][\A c \in Conns :
           Unauthenticated(c) =>
               /\ pc'[c] \in {"connecting", "closed"}
               /\ pc'[c] = "closed" =>
                      close_code'[c] = AUTH_FAILED /\ sock'[c] = "closed"
               /\ current_user'[c] = None
               /\ cleanups'[c] = 0
               /\ \A u \in Users : active_connections'[u] # c
               /\ pc'[c] # pc[c] =>
                      UNCHANGED <<active_connections, is_online, last_seen, inflight,
                                  payload, inbox, messages>>]_vars

\* C6 witness: a connection with a token of a deactivated user and one with a
\* token that does not decode have both been closed with 1008.
C6_Witness ==
    \E c \in Conns, d \in Conns :
        /\ token[c] = "dan" /\ token[d] = "bad"
        /\ pc[c] = "closed" /\ pc[d] = "closed"
        /\ close_code[c] = AUTH_FAILED /\ close_code[d] = AUTH_FAILED

\* C7: every registry entry is a connection of that user; the step in which a
\* connection registers makes it the entry of its user, whatever the entry was,
\* and changes no other connection: the replaced one is not closed and stays
\* where it is in its loop.
C7_LastConnectionWins ==
    [][/\ \A u \in Users :
              active_connections'[u] # None => current_user'[active_connections'[u]] = u
       /\ \A c \in Conns :
              (pc[c] = "accepting" /\ pc'[c] # "accepting") =>
                  /\ active_connections'[current_user[c]] = c
                  /\ \A d \in Conns \ {c} :
                         /\ pc'[d] = pc[d]
                         /\ sock'[d] = sock[d]
                         /\ close_code'[d] = close_code[d]]_vars

\* C7 witness: two connections of one user are both in their event loops, and
\* the registry entry is the second.
C7_Witness ==
    \E c \in Conns, d \in Conns :
        /\ c # d
        /\ current_user[c] = current_user[d]
        /\ pc[c] = "active" /\ pc[d] = "active"
        /\ sock[c] = "open" /\ sock[d] = "open"
        /\ active_connections[current_user[c]] = d

\* C8: a send to a user without an entry leaves the registry as it is and the
\* sender in its loop; a send that raises is swallowed (the sender goes on with
\* its broadcast or its loop, its socket untouched) and the entry of that user
\* is removed.
C8_SendNoEntryOrFailure ==
    [][\A c \in Conns :
           /\ \A target \in Users :
                  (/\ \E type \in CallTypes : CallEvent(c, target, type)
                   /\ active_connections[target] = None) =>
                      /\ active_connections' = active_connections
                      /\ pc'[c] = "active"
                      /\ inbox' = inbox
           /\ (SendDone(c) /\ ~Delivers(sock, inflight[c].handle)) =>
                  /\ active_connections'[inflight[c].user] = None
                  /\ pc'[c] \in {"sending", cont[c]}
                  /\ sock'[c] = sock[c]
                  /\ close_code'[c] = close_code[c]]_vars

\* C8 witness: a connection whose peer has left is still in its loop, has not
\* run its cleanup, is the only connection of its user, and has lost its
\* registry entry: a send to it failed.
C8_Witness ==
    \E h \in Conns :
        /\ pc[h] = "active" /\ sock[h] = "gone"
        /\ active_connections[current_user[h]] = None
        /\ \A d \in Conns \ {h} : current_user[d] # current_user[h]

\* C9: when the send of a `message` push to one participant raises, every
\* registered participant still to be tried is the next one tried or stays in
\* the queue, the rows are untouched, and the sender goes on with the broadcast
\* or its loop without an `error` event.
C9_BroadcastBestEffort ==
    [][\A c \in Conns :
           (/\ SendDone(c)
            /\ payload[c].type = "message"
            /\ ~Delivers(sock, inflight[c].handle)) =>
               /\ \A u \in Range(bq[c]) :
                      active_connections[u] # None =>
                          u = inflight'[c].user \/ u \in Range(bq'[c])
               /\ messages' = messages
               /\ pc'[c] \in {"sending", "active"}
               /\ payload'[c].type \in {"message", "none"}
               /\ \E r \in ever_committed' : r.id = payload[c].mid]_vars

\* C9 witness: the `message` push to one participant is about to fail and a
\* registered participant with its peer there is still to be tried.
C9_Witness ==
    \E c \in Conns :
        /\ pc[c] = "sending" /\ payload[c].type = "message"
        /\ sock[inflight[c].handle] # "open"
        /\ \E u \in Range(bq[c]) :
               active_connections[u] # None /\ sock[active_connections[u]] = "open"

\* C10: a `message`, `typing` or `messages_read` push goes to a connection of a
\* participant of its conversation, the one the registry holds for that user
\* when it is sent, and a `typing` push never to the user who is typing; every
\* `message` push a connection has got is of a conversation of its user.
C10_PushesOnlyToParticipants ==
    [][/\ \A c \in Conns :
              (/\ pc'[c] = "sending"
               /\ payload'[c].type \in {"message", "typing", "messages_read"}) =>
                  /\ InConversation(inflight'[c].user, payload'[c].conv)
                  /\ current_user'[inflight'[c].handle] = inflight'[c].user
                  /\ payload'[c].type = "typing" => inflight'[c].user # payload'[c].from
                  /\ inflight'[c] # inflight[c] =>
                         active_connections'[inflight'[c].user] = inflight'[c].handle
       /\ \A h \in Conns : \A i \in 1..Len(inbox'[h]) :
              \A r \in ever_committed' :
                  r.id = inbox'[h][i] => InConversation(current_user'[h], r.conversation_id)]_vars

\* C10 witness: a `typing` push is on its way to the other participant while a
\* `message` push has been delivered.
C10_Witness ==
    \E c \in Conns :
        /\ pc[c] = "sending" /\ payload[c].type = "typing"
        /\ inflight[c].user # current_user[c]
        /\ sock[inflight[c].handle] = "open"
        /\ \E h \in Conns : Len(inbox[h]) > 0
\* The pushes and stored rows a call-signaling event must leave alone.
Durable == <<messages, ever_committed, next_id, is_online, last_seen,
             user_deleted_messages>>

\* C11: a call-signaling event leaves the stored rows and flags as they are and
\* queues no further recipient; with a target that has an entry it starts one
\* send, to the target's handle, of a payload with the event's type and the
\* sender's id; with no target or a target without entry it sends nothing, no
\* `error` either, and the sender is back at its loop with its socket open.
\* When the one send returns the task is back at its loop.
C11_CallRelayedToTargetOnly ==
    [][\A c \in Conns :
           /\ \A target \in Users \cup {None}, type \in CallTypes :
                  (Receiving(c) /\ pc'[c] # "finally" /\ CallEvent(c, target, type)) =>
                      /\ UNCHANGED Durable
                      /\ inbox' = inbox
                      /\ bq'[c] = <<>>
                      /\ \A d \in Conns \ {c} :
                             inflight'[d] = inflight[d] /\ payload'[d] = payload[d]
                      /\ IF target # None /\ active_connections[target] # None
                         THEN /\ pc'[c] = "sending"
                              /\ inflight'[c] = [user |-> target,
                                                 handle |-> active_connections[target]]
                              /\ payload'[c].type = type
                              /\ payload'[c].from = current_user[c]
                         ELSE /\ pc'[c] = "active"
                              /\ inflight'[c] = NoSend
                              /\ payload'[c] = NoPayload
                              /\ sock'[c] = "open"
                              /\ active_connections' = active_connections
           /\ (payload[c].type \in CallTypes /\ SendDone(c)) =>
                  /\ pc'[c] = "active"
                  /\ payload'[c] = NoPayload
                  /\ UNCHANGED Durable]_vars

\* C11 witness: a call_offer is on its way to the open connection of another
\* user and no further recipient is queued.
C11_Witness ==
    \E c \in Conns :
        /\ pc[c] = "sending" /\ payload[c].type = "call_offer"
        /\ inflight[c].user # current_user[c]
        /\ current_user[inflight[c].handle] = inflight[c].user
        /\ sock[inflight[c].handle] = "open"
        /\ bq[c] = <<>>

\* C12: when the commit of is_online = False in a connection's cleanup raises,
\* the cleanup still removes the user's entry and still starts the
\* `user_offline` broadcast to the users that remain registered.
C12_FailedOfflineWriteStillAnnounces ==
    [][\A c \in Conns :
           (cleanups'[c] = cleanups[c] + 1 /\ ~offline_written'[c]) =>
               /\ active_connections'[current_user[c]] = None
               /\ keys(active_connections') # <<>> =>
                      /\ pc'[c] = "sending"
                      /\ payload'[c].type = "user_offline"
                      /\ payload'[c].from = current_user[c]]_vars

\* Two connections of two different users.
TwoUsers(c, d) ==
    /\ c # d
    /\ current_user[c] # None /\ current_user[d] # None
    /\ current_user[c] # current_user[d]

\* After the first of them has closed, the second, in its loop with its peer
\* there, holds the entry of its user and its user is flagged online.
SurvivorStays(c, d) ==
    (pc[c] = "closed" /\ Live(d) /\ sock[d] = "open") =>
        /\ active_connections[current_user[d]] = d
        /\ is_online[current_user[d]]

Refused(status) ==
    /\ response'.status = status
    /\ response'.rows = <<>>
    /\ UNCHANGED <<messages, ever_committed, next_id, user_deleted_messages>>

NoAccess(user, conv) == conv \notin ConvIds \/ ~InConversation(user, conv)

\* C14: create_message (called with a MessageCreate that validated) and
\* get_conversation_messages raise 404 for an unknown conversation and 403 for
\* a caller who is no participant, and then create, change and return no row.
C14_NotFoundAndForbidden ==
    [][/\ response'.call = "send_message" =>
              \A user \in Callers, conv \in EventConvs, content \in SendContents :
                  (/\ NoAccess(user, conv)
                   /\ Validates(message_schema, content)
                   /\ send_message(user, conv, content, "ok")) =>
                      Refused(IF conv \in ConvIds THEN 403 ELSE 404)
       /\ response'.call = "get_conversation_messages" =>
              \A user \in Callers, conv \in EventConvs, limit \in Limits :
                  (/\ NoAccess(user, conv)
                   /\ get_conversation_messages(user, conv, limit)) =>
                      Refused(IF conv \in ConvIds THEN 403 ELSE 404)]_vars

\* C14 witness: the table has a row of the conversation and the outsider's
\* listing was refused with 403.
C14_Witness ==
    /\ Len(messages) > 0
    /\ response.call = "get_conversation_messages"
    /\ response.status = 403

\* C15: a send whose content is empty, whitespace only or longer than 5000
\* characters is refused with 422 and stores no row.
C15_BlankOrLongContentRejected ==
    [][\A user \in Callers, conv \in EventConvs, content \in {"", " ", "long"},
          outcome \in {"ok", "commit", "prune"} :
           send_message(user, conv, content, outcome) =>
               /\ response'.status = 422
               /\ UNCHANGED <<messages, ever_committed, next_id>>]_vars

\* C16: a create that returns leaves the conversation with the newest
\* MAX_MESSAGES_PER_CONVERSATION of its rows, the new one included, in creation
\* order: never more than the ceiling, and exactly the ceiling once more rows
\* than that have been created.
C16_PruningKeepsNewest ==
    [][\A user \in Callers, conv \in EventConvs, content \in SendContents :
           (/\ response'.status = 201
            /\ send_message(user, conv, content, "ok")) =>
               LET created == Append(RowsOf(messages, conv),
                                     NewRow(conv, user, None, strip[content]))
                   kept == RowsOf(messages', conv)
               IN /\ kept = LastN(created, MAX_MESSAGES_PER_CONVERSATION)
                  /\ Len(kept) <= MAX_MESSAGES_PER_CONVERSATION
                  /\ next_id' - 1 > MAX_MESSAGES_PER_CONVERSATION =>
                         Len(kept) = MAX_MESSAGES_PER_CONVERSATION
                  /\ kept[Len(kept)].id = next_id
                  /\ \A i \in 1..(Len(kept) - 1) : kept[i].id < kept[i + 1].id]_vars

\* C16 witness: more rows than the ceiling were created, the last create
\* returned, and the rows left are as many as the ceiling, the newest last.
C16_Witness ==
    /\ next_id - 1 > MAX_MESSAGES_PER_CONVERSATION
    /\ response.call = "send_message" /\ response.status = 201
    /\ Len(messages) = MAX_MESSAGES_PER_CONVERSATION
    /\ messages[Len(messages)].id = next_id - 1

\* The smaller of two numbers.
Min(a, b) == IF a < b THEN a ELSE b

\* C17: a listing that returns holds, oldest first, the min(limit, k) newest of
\* the k rows of the conversation the caller has no overlay row for (the ceiling
\* stands in for a missing limit), and never more rows than the ceiling.
C17_ListingNewestWithinCeiling ==
    [][\A user \in Callers, conv \in ConvIds, limit \in Limits :
           (/\ response'.call = "get_conversation_messages"
            /\ response'.status = 200
            /\ get_conversation_messages(user, conv, limit)) =>
               LET mine == SelectSeq(messages,
                                     LAMBDA m : /\ m.conversation_id = conv
                                                /\ user_deleted_messages[<<user, m.id>>] = 0)
                   k == Len(mine)
                   n == Min(IF limit = NoLimit THEN MAX_MESSAGES_PER_CONVERSATION
                                               ELSE limit, k)
                   rows == response'.rows
               IN /\ Len(rows) = n
                  /\ \A i \in 1..n : rows[i].id = mine[k - n + i].id
                  /\ \A i \in 1..(n - 1) : rows[i].id < rows[i + 1].id
                  /\ Len(rows) <= MAX_MESSAGES_PER_CONVERSATION]_vars

\* The rows other than the one with this id are as they were, and no row was
\* added or removed.
OthersKept(message_id) ==
    /\ Len(messages') = Len(messages)
    /\ \A i \in 1..Len(messages) :
           /\ messages'[i].id = messages[i].id
           /\ messages[i].id # message_id => messages'[i] = messages[i]

\* C18: edit_message raises 404 for an unknown id, 403 for a caller who is not
\* the sender, 400 for a message flagged deleted, and then changes nothing;
\* otherwise it stores the encryption of the new content (which decrypts to it),
\* sets is_edited and leaves the rest of the row and the other rows alone.
C18_EditChecksThenReencrypts ==
    [][\A user \in Editors, message_id \in MessageIds, content \in EditContents :
           (/\ response'.call = "edit_message"
            /\ edit_message(message_id, user, content)) =>
               IF ~HasRow(messages, message_id)
               THEN response'.status = 404 /\ messages' = messages
               ELSE LET old == Row(messages, message_id) IN
                    IF old.sender_id # user
                    THEN response'.status = 403 /\ messages' = messages
                    ELSE IF old.is_deleted
                    THEN response'.status = 400 /\ messages' = messages
                    ELSE /\ response'.status = 200
                         /\ OthersKept(message_id)
                         /\ LET new == Row(messages', message_id)
                            IN /\ new.content = encrypt(content)
                               /\ new.content # content
                               /\ decrypt(new.content) = content
                               /\ new.is_edited
                               /\ new = [old EXCEPT !.content = new.content,
                                                    !.is_edited = TRUE]]_vars

\* C18 witness: an edit has returned the new content, and its row holds the
\* ciphertext of it and the edited flag.
C18_Witness ==
    /\ response.call = "edit_message" /\ response.status = 200
    /\ \E i \in 1..Len(messages) :
           /\ messages[i].is_edited
           /\ messages[i].content = encrypt("yo")
           /\ response.rows[1].id = messages[i].id
           /\ response.rows[1].content = "yo"

\* The participants of a conversation.
Members(conv) == Range(participants[conv])

\* The caller's full listing of the conversation after the step has this id,
\* flagged deleted.
ListedDeleted(user, conv, message_id) ==
    LET rows == Listing(messages', user_deleted_messages', conv, user, MaxMsgs + 1)
    IN \E i \in 1..Len(rows) : rows[i].id = message_id /\ rows[i].is_deleted

\* What C19 says of 403, of 400 and of the row.  The flagged row is in the
\* listing of every participant (everyone), or of exactly the participants
\* without an overlay row for it.
DeleteForEveryone(everyone) ==
    response'.call = "delete_message" =>
    \A user \in Editors, message_id \in MessageIds, delete_type \in DeleteTypes :
        (/\ HasRow(messages, message_id)
         /\ delete_type # "for_me"
         /\ delete_message(message_id, user, delete_type)) =>
            LET old == Row(messages, message_id) IN
            IF delete_type # "for_everyone"
            THEN /\ response'.status = 400
                 /\ UNCHANGED <<messages, user_deleted_messages>>
            ELSE IF old.sender_id # user
            THEN /\ response'.status = 403
                 /\ UNCHANGED <<messages, user_deleted_messages>>
            ELSE /\ response'.status = 200
                 /\ OthersKept(message_id)
                 /\ Row(messages', message_id) = [old EXCEPT !.is_deleted = TRUE]
                 /\ UNCHANGED user_deleted_messages
                 /\ \A u \in Members(old.conversation_id) :
                        IF everyone
                        THEN ListedDeleted(u, old.conversation_id, message_id)
                        ELSE ListedDeleted(u, old.conversation_id, message_id)
                                 <=> user_deleted_messages[<<u, message_id>>] = 0

\* C19 (as claimed): for_everyone by another user than the sender raises 403 and
\* changes nothing; by the sender it sets is_deleted in place, keeps the row,
\* and the row is in the full listing of every participant, flagged deleted;
\* another delete type raises 400 and changes nothing.
C19_TombstoneListedForAll ==
    [][DeleteForEveryone(TRUE)]_vars

\* C19 (amended): the same, but the flagged row is in the full listing of
\* exactly the participants who have no overlay row for it.
C19_TombstoneListedUnlessHidden ==
    [][DeleteForEveryone(FALSE)]_vars

\* C19 witness: the sender's for_everyone delete has returned, the row is there
\* and flagged, and the other participant has an overlay row for it.
C19_Witness ==
    /\ response.call = "delete_message" /\ response.status = 200
    /\ \E i \in 1..Len(messages) :
           /\ messages[i].is_deleted
           /\ response.rows[1].id = messages[i].id
           /\ response.rows[1].is_deleted
           /\ user_deleted_messages[<<2, messages[i].id>>] = 1
           /\ messages[i].sender_id = 1

\* C20: a for_me delete of a message that exists returns normally and leaves
\* one overlay row for the pair, whether the pair had one before or not; it
\* touches no other pair and no message row; no pair ever has two rows.
C20_DeleteForMeIdempotent ==
    [][/\ \A k \in Callers \X MessageIds : user_deleted_messages'[k] <= 1
       /\ \A user \in Editors, message_id \in MessageIds :
              (/\ response'.call = "delete_message"
               /\ HasRow(messages, message_id)
               /\ delete_message(message_id, user, "for_me")) =>
                  /\ response'.status = 200
                  /\ user_deleted_messages'[<<user, message_id>>] = 1
                  /\ \A k \in (Callers \X MessageIds) \ {<<user, message_id>>} :
                         user_deleted_messages'[k] = user_deleted_messages[k]
                  /\ messages' = messages]_vars

\* C20 witness: a for_me delete has returned and its pair has one overlay row.
C20_Witness ==
    /\ response.call = "delete_message" /\ response.status = 200
    /\ Len(response.rows) = 1
    /\ ~response.rows[1].is_deleted
    /\ \E user \in Editors : user_deleted_messages[<<user, response.rows[1].id>>] = 1

\* C21: a for_me delete of an existing message by user u leaves the message out
\* of every listing u asks for, leaves the listing of every other participant as
\* it was (the message still there with the same body and flags if it was
\* there), changes no message row, and starts no push: no broadcast queue, send
\* in flight, payload or inbox of any connection changes.
C21_ForMeHidesOnlyFromCaller ==
    [][response'.call = "delete_message" =>
       \A user \in Editors, message_id \in MessageIds :
           (/\ HasRow(messages, message_id)
            /\ delete_message(message_id, user, "for_me")) =>
               LET conv == Row(messages, message_id).conversation_id IN
               /\ \A limit \in Limits :
                      LET mine == Listing(messages', user_deleted_messages', conv, user, limit)
                      IN \A i \in 1..Len(mine) : mine[i].id # message_id
               /\ \A other \in Members(conv) \ {user}, limit \in Limits :
                      Listing(messages', user_deleted_messages', conv, other, limit)
                          = Listing(messages, user_deleted_messages, conv, other, limit)
               /\ messages' = messages
               /\ UNCHANGED <<bq, inflight, payload, inbox>>]_vars

\* C21 witness: user 1 has deleted a message for themselves that user 2 still
\* gets listed, with its body and not flagged deleted.
C21_Witness ==
    /\ response.call = "delete_message" /\ response.status = 200
    /\ Len(response.rows) = 1
    /\ user_deleted_messages[<<1, response.rows[1].id>>] = 1
    /\ \E i \in 1..Len(Listing(messages, user_deleted_messages, 1, 2, MaxMsgs + 1)) :
           LET listed == Listing(messages, user_deleted_messages, 1, 2, MaxMsgs + 1)[i]
           IN /\ listed.id = response.rows[1].id
              /\ listed.content = "hi"
              /\ ~listed.is_deleted
    /\ \A i \in 1..Len(Listing(messages, user_deleted_messages, 1, 1, MaxMsgs + 1)) :
           Listing(messages, user_deleted_messages, 1, 1, MaxMsgs + 1)[i].id
               # response.rows[1].id

\* The conversations of one type whose participants are exactly `ids`.
Matching(convs, table, ids, is_group) ==
    {i \in 1..Len(convs) : convs[i].is_group = is_group /\ ParticipantsOf(table, i) = ids}

\* An accepted create for the participant set `ids` returns the first
\* conversation of that set and type if there was one, changing nothing, and
\* else a new one; what it returns has exactly these participants.
Deduplicated(ids, is_group) ==
    LET before == Matching(conversations, conversation_participants, ids, is_group)
        got == response'.rows[1]
    IN /\ got.participants = ids
       /\ got.is_group = is_group
       /\ IF before # {}
          THEN /\ \A i \in before : got.id <= i
               /\ got.id \in before
               /\ UNCHANGED <<conversations, conversation_participants>>
          ELSE /\ got.id = Len(conversations) + 1
               /\ Len(conversations') = Len(conversations) + 1

\* C22: an accepted create of a non-group conversation by A naming B (A # B)
\* returns the first non-group conversation of exactly {A, B} if one exists,
\* whoever of the two created it, and then adds no conversation; else it returns
\* a new one.  What it returns has the participants {A, B} and no others, so two
\* pairs never share a conversation, and no pair ever has two.
C22_DirectPairOnce ==
    [][/\ response'.call = "create_conversation" /\ response'.status = 201 =>
              \A creator \in Callers, participant_ids \in IdLists :
                  (/\ Cardinality(Range(participant_ids) \cup {creator}) = 2
                   /\ create_conversation(creator, participant_ids, FALSE, "ok")) =>
                      Deduplicated(Range(participant_ids) \cup {creator}, FALSE)
       /\ \A pair \in {ids \in SUBSET Users : Cardinality(ids) = 2} :
              Cardinality(Matching(conversations', conversation_participants',
                                   pair, FALSE)) <= 1]_vars

\* C22 witness: the direct conversation of users 1 and 3 was created second, a
\* third conversation exists, and the last create returned the second again to
\* user 3.
C22_Witness ==
    /\ response.call = "create_conversation" /\ response.status = 201
    /\ response.rows[1] = [id |-> 2, is_group |-> FALSE, participants |-> {1, 3}]
    /\ Len(conversations) = 3
    /\ Matching(conversations, conversation_participants, {1, 3}, FALSE) = {2}

\* C23: an accepted create of a group conversation returns the first group
\* conversation whose participants are exactly the named users and the creator,
\* in whatever order they were named and whoever of them creates, and then adds
\* no conversation; else it returns a new one.  What it returns has exactly
\* these participants, so a set that differs in a member, a strict subset and a
\* strict superset each get another conversation, and no set ever has two.
C23_GroupKeyedByExactSet ==
    [][/\ response'.call = "create_conversation" /\ response'.status = 201 =>
              \A creator \in Callers, participant_ids \in IdLists :
                  create_conversation(creator, participant_ids, TRUE, "ok") =>
                      Deduplicated(Range(participant_ids) \cup {creator}, TRUE)
       /\ \A ids \in SUBSET Users :
              Cardinality(Matching(conversations', conversation_participants',
                                   ids, TRUE)) <= 1]_vars

\* C24: every conversation that is not a group has exactly two participants and
\* every group has at least three; a request that would give another count
\* creates nothing.
C24_Cardinality ==
    \A i \in 1..Len(conversations) :
        LET n == Cardinality(ParticipantsOf(conversation_participants, i))
        IN IF conversations[i].is_group THEN n >= 3 ELSE n = 2

\* C25: whatever create_conversation calls have run, in whatever order, no two
\* conversations that are not groups have the same pair of participants, and no
\* two groups have the same set of participants.
C25_AtMostOnePerSet ==
    \A ids \in SUBSET Users :
        /\ Cardinality(ids) = 2 =>
               Cardinality(Matching(conversations, conversation_participants,
                                    ids, FALSE)) <= 1
        /\ Cardinality(Matching(conversations, conversation_participants,
                                ids, TRUE)) <= 1

\* C26: a message has a fully_read_at only if every participant of its
\* conversation has a read cursor, and one at or after the message's created_at.
C26_FullyReadOnlyWhenAllRead ==
    \A i \in 1..Len(messages) :
        messages[i].fully_read_at # None =>
            \A r \in conversation_participants :
                r.conversation_id = messages[i].conversation_id =>
                    /\ r.last_read_at # None
                    /\ r.last_read_at >= messages[i].created_at

\* C27: mark_conversation_as_read of an existing conversation by a user who is
\* not a participant raises 403 and changes no association row.  By a
\* participant it changes, whether its commits succeed or not, no association
\* row but the caller's for this conversation: the other participants' cursors
\* and unread counts for it and the caller's cursors for other conversations
\* stay; when it returns, the caller's unread count for the conversation is 0.
C27_MarkReadMovesOnlyOwnCursor ==
    [][response'.call = "mark_conversation_as_read" =>
       \A user \in Callers, conversation_id \in 1..Len(conversations),
          outcome \in {"ok", "commit", "flag"} :
           mark_conversation_as_read(conversation_id, user, outcome) =>
               IF user \notin ParticipantsOf(conversation_participants, conversation_id)
               THEN /\ response'.status = 403
                    /\ UNCHANGED conversation_participants
               ELSE /\ \A r \in conversation_participants :
                           (r.conversation_id # conversation_id \/ r.user_id # user) =>
                               r \in conversation_participants'
                    /\ Cardinality(conversation_participants')
                           = Cardinality(conversation_participants)
                    /\ \A other \in ParticipantsOf(conversation_participants,
                                                  conversation_id) \ {user} :
                           get_unread_count(messages', conversation_participants',
                                            conversation_id, other)
                               = get_unread_count(messages, conversation_participants,
                                                  conversation_id, other)
                    /\ response'.status = 200 =>
                           get_unread_count(messages', conversation_participants',
                                            conversation_id, user) = 0]_vars

\* C27 witness: user 2 sent into conversation 1, user 1 marked conversation 2
\* read and then conversation 1; user 1's cursor for conversation 2 is the
\* earlier one, user 2 has none, and user 1 has nothing unread in conversation 1.
C27_Witness ==
    /\ response.call = "mark_conversation_as_read" /\ response.status = 200
    /\ response.rows[1].last_read_at = 3
    /\ [user_id |-> 1, conversation_id |-> 1, last_read_at |-> 3]
           \in conversation_participants
    /\ [user_id |-> 1, conversation_id |-> 2, last_read_at |-> 2]
           \in conversation_participants
    /\ [user_id |-> 2, conversation_id |-> 1, last_read_at |-> None]
           \in conversation_participants
    /\ \E i \in 1..Len(messages) :
           /\ messages[i].conversation_id = 1
           /\ messages[i].sender_id = 2
           /\ messages[i].created_at = 1
    /\ get_unread_count(messages, conversation_participants, 1, 1) = 0

\* C28: decrypt(encrypt(content)) = content for every content; every stored
\* body is the encrypted form of a clear text; a create returns the content
\* its MessageCreate carried and an edit the content it was given; and every row
\* a create, edit, delete or listing returns carries the decrypted body of the
\* stored row, never an encrypted form.
C28_CodecRoundTrip ==
    [][/\ \A content \in Contents : decrypt(encrypt(content)) = content
       /\ \A i \in 1..Len(messages') :
              messages'[i].content = encrypt(decrypt(messages'[i].content))
       /\ response'.status \in {200, 201} =>
              \A i \in 1..Len(response'.rows) :
                  LET got == response'.rows[i] IN
                  /\ got.content \notin Ciphertexts
                  /\ HasRow(messages', got.id)
                  /\ encrypt(got.content) = Row(messages', got.id).content
       /\ response'.call = "send_message" /\ response'.status = 201 =>
              \A user \in Senders, conv \in ConvIds, content \in SendContents :
                  send_message(user, conv, content, "ok") =>
                      response'.rows[1].content = strip[content]
       /\ response'.call = "edit_message" /\ response'.status = 200 =>
              \A user \in Editors, message_id \in MessageIds, content \in EditContents :
                  edit_message(message_id, user, content) =>
                      response'.rows[1].content = content]_vars

\* C28 witness: a listing has returned "yo" for a row that an edit has stored
\* encrypted.
C28_Witness ==
    /\ response.call = "get_conversation_messages" /\ response.status = 200
    /\ \E i \in 1..Len(response.rows) :
           /\ response.rows[i].content = "yo"
           /\ HasRow(messages, response.rows[i].id)
           /\ Row(messages, response.rows[i].id).content = "gAAAAA:yo"
           /\ Row(messages, response.rows[i].id).is_edited

\* C29: a step that changes a user's is_online or last_seen is the registration
\* of a websocket connection or the cleanup of one; a login, a logout, a send
\* and a listing over REST change neither.
C29_FlagsOnlyByPresence ==
    [][(is_online' # is_online \/ last_seen' # last_seen) =>
           \E c \in Conns : RegisterOnline(c) \/ Cleanup(c)]_vars

\* C30: pruning is unconditional.  Whenever a create by a participant would
\* take the conversation above the ceiling, the create can succeed, removing
\* the oldest surplus rows, whatever those rows are: flagged deleted for
\* everyone, unread, or referenced by deleted-for-me rows.
C30_PruningUnconditional ==
    \A user \in Callers, conv \in EventConvs :
        (/\ Validates(message_schema, "hi")
         /\ CreateCheck(conv, user) = "ok"
         /\ HasAttachmentFields(message_schema)
         /\ next_id <= MaxMsgs
         /\ Surplus(Append(messages, NewRow(conv, user, None, "hi")), conv) > 0) =>
            ENABLED send_message(user, conv, "hi", "ok")

\* C31: a `mark_read` event of a participant on an active connection does what
\* the REST mark-read does: after it the user's association row of the
\* conversation has a read cursor and the user's unread count for the
\* conversation is 0.
C31_MarkReadEventMovesCursor ==
    [][\A c \in Conns, conv \in ConvIds :
           (/\ Receiving(c)
            /\ InConversation(current_user[c], conv)
            /\ MarkReadEvent(c, conv)) =>
               /\ \A r \in conversation_participants' :
                      (r.conversation_id = conv /\ r.user_id = current_user[c]) =>
                          r.last_read_at # None
               /\ get_unread_count(messages', conversation_participants', conv,
                                   current_user[c]) = 0]_vars

\* C32: every create_message that returns advances the conversation's
\* updated_at: after it updated_at is not earlier than the created_at of the
\* new message, and it is not what it was before the create.
C32_CreateBumpsUpdatedAt ==
    [][\A sender \in Callers, conversation_id \in NamedConvs, file_path \in FilePaths :
           (/\ response'.call = "create_message"
            /\ response'.status = 201
            /\ create_message(sender, conversation_id, file_path)) =>
               /\ conversations'[conversation_id].updated_at >=
                      messages'[Len(messages')].created_at
               /\ conversations'[conversation_id].updated_at #
                      conversations[conversation_id].updated_at]_vars

\* C33: after a run of the retention cleanup every message that had an
\* attachment created before the cutoff has no file_path, has is_deleted set
\* and has a tombstone text as its body; every other message is as it was.
C33_CleanupTombstonesExpired ==
    [][\A version \in Versions :
           cleanup_files(version) =>
               \A i \in 1..Len(messages) :
                   IF /\ messages[i].file_path # None
                      /\ messages[i].created_at < now - retention_period
                   THEN /\ messages'[i].file_path = None
                        /\ messages'[i].is_deleted
                        /\ decrypt(messages'[i].content) \in
                               {FILE_EXPIRED, placeholder_text("document"),
                                placeholder_text("image")}
                   ELSE messages'[i] = messages[i]]_vars

\* C34: the stored body of every message row is empty or the encryption of a
\* text: no create, edit, delete or cleanup leaves a body in clear text.
C34_NeverStoredInClear ==
    \A i \in 1..Len(messages) :
        \/ messages[i].content = ""
        \/ \E s \in Plaintexts \cup {FILE_EXPIRED} : messages[i].content = encrypt(s)

\* C35: the cleanup of a connection removes the registry entry of its user
\* only if the entry holds the connection's own handle: an entry that holds
\* another (newer) handle of the user is left as it is.
C35_CleanupRemovesOwnEntryOnly ==
    [][\A c \in Conns :
           (/\ pc[c] \in {"active", "finally"}
            /\ cleanups'[c] = cleanups[c] + 1
            /\ active_connections[current_user[c]] # c) =>
               active_connections'[current_user[c]] = active_connections[current_user[c]]]_vars

\* C36: a send_json that fails deregisters no handle but the one it was
\* attempted on: when the user's entry holds another handle by the time the
\* call raises, the entry is kept.
C36_FailedSendKeepsNewerEntry ==
    [][\A c \in Conns :
           (/\ pc[c] = "sending"
            /\ payload[c].type # "error"
            /\ active_connections[inflight[c].user] # inflight[c].handle
            /\ SendDone(c)) =>
               active_connections'[inflight[c].user] = active_connections[inflight[c].user]]_vars

\* C37: when a `message` event is answered with the `error` event, its message
\* was not stored and was pushed to nobody; and when its message was stored,
\* the broadcast follows or the connection ends.
C37_ErrorMeansNotPersisted ==
    [][\A c \in Conns, conv \in ConvIds, outcome \in {"ok", "commit", "prune"} :
           (Receiving(c) /\ MessageAccepted(c, conv, "hi", outcome)) =>
               /\ payload'[c].type = "error" =>
                      /\ messages' = messages
                      /\ ever_committed' = ever_committed
                      /\ inbox' = inbox
               /\ ever_committed' # ever_committed =>
                      \/ payload'[c].type # "error"
                      \/ pc'[c] \in {"finally", "closed"}]_vars

\* C38: a `typing` or `mark_read` event that names a conversation the sending
\* user is not a participant of starts no push to anybody and changes no
\* message row.
C38_OutsiderEventsAreInert ==
    [][\A c \in Conns, conv \in ConvIds :
           (/\ Receiving(c)
            /\ ~InConversation(current_user[c], conv)
            /\ TypingEvent(c, conv) \/ MarkReadEvent(c, conv)) =>
               /\ payload'[c].type = "none"
               /\ inbox' = inbox
               /\ messages' = messages
               /\ conversation_participants' = conversation_participants]_vars

\* C39: with create_message calls of two processes interleaving in one
\* conversation, the delete of a pruning never removes one of the
\* MAX_MESSAGES_PER_CONVERSATION most recently created messages, and once no
\* call is under way the conversation holds as many messages as were created,
\* or the ceiling if more were.
C39_ConcurrentPruneKeepsNewest ==
    [][/\ \A w \in Workers :
              (pruning[w].at = "delete" /\ delete_oldest(w)) =>
                  \A i \in 1..Len(messages) :
                      messages[i].id > next_id - 1 - MAX_MESSAGES_PER_CONVERSATION =>
                          HasRow(messages', messages[i].id)
       /\ (\A w \in Workers : pruning'[w].at = "idle") =>
              Len(messages') = IF next_id' - 1 < MAX_MESSAGES_PER_CONVERSATION
                               THEN next_id' - 1
                               ELSE MAX_MESSAGES_PER_CONVERSATION]_vars

\* C40: the deleted flag is monotonic.  A row flagged is_deleted that is still
\* in the table after a create, edit, delete or mark-read has the flag, the
\* stored body and the edited flag it had before; the update of the `mark_read`
\* event changes none of the three in any row.
C40_DeletedFlagMonotonic ==
    [][/\ \A i \in 1..Len(messages), j \in 1..Len(messages') :
              (messages[i].is_deleted /\ messages'[j].id = messages[i].id) =>
                  /\ messages'[j].is_deleted
                  /\ messages'[j].content = messages[i].content
                  /\ messages'[j].is_edited = messages[i].is_edited
       /\ \A reader \in Callers :
              LET marked == MarkRead(messages, 1, reader)
              IN \A i \in 1..Len(messages) :
                     /\ marked[i].is_deleted = messages[i].is_deleted
                     /\ marked[i].content = messages[i].content
                     /\ marked[i].is_edited = messages[i].is_edited]_vars

\* C40 witness: the sender's edit of a message flagged deleted was refused
\* after the conversation had been marked read, and the row is as the delete
\* left it.
C40_Witness ==
    /\ response.call = "edit_message" /\ response.status = 400
    /\ \E i \in 1..Len(messages) :
           /\ messages[i].is_deleted
           /\ ~messages[i].is_edited
           /\ messages[i].content = encrypt("hi")
    /\ \E r \in conversation_participants : r.last_read_at # None

====
